---- MODULE Spec2Model ----
(***************************************************************************)
(* Trace replay engine of gem5-simulation: the Oracle replayer             *)
(* (OracleReplayer.cpp/.h), the explicit and GC memory managers under the  *)
(* TraceReplayer driver (TraceReplayerEnhanced.cpp) and the C replayer     *)
(* (TraceReplayer.c).  One replay session runs in one mode; the mode is    *)
(* fixed at construction.                                                  *)
(***************************************************************************)
EXTENDS Integers, Sequences, FiniteSets, TLC

\* ------------------------------------------------------------------ bounds
\* Number of events of one Oracle session (events_.size() is at most this).
MaxEvents == 4
\* Number of trace records of one TraceReplayer session.
MaxLines == 3
\* Number of CSV rows of one session of the C replayer.
MaxRows == 4
\* Object ids are 1..MaxId.
MaxId == 2
\* Request sizes are 1 byte and MaxSize bytes.
MaxSize == 2

ObjIds == 1..MaxId
Sizes == {1, MaxSize}

\* The unsigned 64-bit word of the counters, scaled to the 30 bits that fit the
\* integers of the model checker.  Counters of the bounded model stay far below
\* it unless a subtraction wraps below zero.
UINT64_MAX == 1073741823

\* Unsigned arithmetic: every result is taken modulo the word.
Wrap(x) == x % (UINT64_MAX + 1)

\* nullptr / NULL.
NULL == 0

\* ------------------------------------------------------------- containers
\* std::map / std::unordered_map as a function on its key set.
EmptyMap == << >>

\* m[k] = v (insert or overwrite).
Put(m, k, v) == [x \in DOMAIN m \cup {k} |-> IF x = k THEN v ELSE m[x]]

\* m.erase(k).
Erase(m, k) == [x \in DOMAIN m \ {k} |-> m[x]]

\* The backend's free(): one more release of handle h.
Release(rel, h) ==
  IF h \in DOMAIN rel THEN [rel EXCEPT ![h] = @ + 1] ELSE Put(rel, h, 1)

RECURSIVE SumOver(_, _)
\* Sum of f[k] over the keys k of S.
SumOver(f, S) ==
  IF S = {} THEN 0
  ELSE LET k == CHOOSE x \in S : TRUE IN f[k] + SumOver(f, S \ {k})

VARIABLES
  mode,                   \* "oracle", "explicit", "gc" or "c"
  pc,                     \* position of the session's control
  nextHandle,             \* number of handles the backend has returned
  released,               \* handle -> number of times it was passed to free
  \* Oracle replayer
  current_event_index_,
  last_timestamp,         \* timestamp of events_[current_event_index_ - 1]
  cur_event,              \* the Alloc event process_allocation is handling
  live_objects_,
  pending_frees_,
  stats_,
  enq_log,                \* event indices in the order process_free queued them
  deq_log,                \* queued frees in the order the drain popped them
  \* ExplicitMemoryManager / GCSimulator under TraceReplayer
  allocations,
  sizes,
  deadObjects,
  gcThreshold,
  allocationThreshold,
  allocationsSinceLastGC,
  stats,
  liveObjects,
  lineNumber,
  marked,                 \* handles whose object had a death record after its allocation
  \* C replayer (TraceReplayer.c)
  g_stats,
  line_count,
  \* OracleReplayer::load_oracle
  file,                   \* the lines of the input file
  file_pos,               \* number of lines getline has returned
  header_skipped,
  events_,
  \* Statistics (OracleReplayer.h): per-site counts and the printed hot-site list
  allocations_per_site,
  bytes_per_site,
  first_seen,             \* site ids in the order record_allocation first saw them
  sites,                  \* the rows print() writes under "Hot Allocation Sites"
  \* main() of TraceReplayerEnhanced.cpp
  argc,
  traceFile,              \* "readable" or "missing"
  allocatorName,
  build,                  \* which of USE_MIMALLOC / USE_JEMALLOC the build defines
  allocator,              \* name() of the backend createAllocator returned
  exit_code               \* NoExit until main returns

commonVars == <<mode, pc, nextHandle, released>>
oracleVars == <<current_event_index_, last_timestamp, cur_event, live_objects_,
                pending_frees_, stats_, enq_log, deq_log>>
mgrVars == <<allocations, sizes, deadObjects, allocationsSinceLastGC, stats>>
enhVars == <<mgrVars, gcThreshold, allocationThreshold, liveObjects, lineNumber, marked>>
cVars == <<g_stats, line_count>>
loaderVars == <<file, file_pos, header_skipped, events_>>
siteVars == <<allocations_per_site, bytes_per_site, first_seen, sites>>
mainVars == <<argc, traceFile, allocatorName, build, allocator, exit_code>>
\* Ingestion, the printed report and main's arguments: replay itself never writes them.
auxVars == <<loaderVars, siteVars, mainVars>>
vars == <<commonVars, oracleVars, enhVars, cVars, auxVars>>

\* What an Oracle session never touches.
notOracle == <<enhVars, cVars, auxVars>>
\* What a TraceReplayer session never touches.
notEnhanced == <<oracleVars, cVars, auxVars>>
\* What a session of the C replayer never touches.
notC == <<oracleVars, enhVars, auxVars>>

\* ============================================================ Oracle mode
\* struct Statistics after construction.
OracleStatsInit ==
  [total_allocations |-> 0, total_frees |-> 0, bytes_allocated |-> 0,
   bytes_freed |-> 0, peak_memory |-> 0, current_memory |-> 0,
   total_lifetime |-> 0, max_lifetime |-> 0, min_lifetime |-> UINT64_MAX]

record_allocation(s, size) ==
  LET cm == Wrap(s.current_memory + size) IN
  [s EXCEPT !.total_allocations = Wrap(@ + 1),
            !.bytes_allocated = Wrap(@ + size),
            !.current_memory = cm,
            !.peak_memory = IF cm > @ THEN cm ELSE @]

\* Statistics::record_free as it would be if it left current_memory as it is.
record_free_keeps_current(s, size, lifetime) ==
  [s EXCEPT !.total_frees = Wrap(@ + 1),
            !.bytes_freed = Wrap(@ + size),
            !.total_lifetime = Wrap(@ + lifetime),
            !.max_lifetime = IF lifetime > @ THEN lifetime ELSE @,
            !.min_lifetime = IF lifetime < @ THEN lifetime ELSE @]

record_free(s, size, lifetime) ==
  [s EXCEPT !.total_frees = Wrap(@ + 1),
            !.bytes_freed = Wrap(@ + size),
            !.current_memory = Wrap(@ - size),
            !.total_lifetime = Wrap(@ + lifetime),
            !.max_lifetime = IF lifetime > @ THEN lifetime ELSE @,
            !.min_lifetime = IF lifetime < @ THEN lifetime ELSE @]

\* process_allocation is not running: it has no event argument.
NoEvent == [timestamp |-> 0, object_id |-> NULL, size |-> 0]

OracleInitVars ==
  /\ current_event_index_ = 0
  /\ last_timestamp = 0
  /\ cur_event = NoEvent
  /\ live_objects_ = EmptyMap
  /\ pending_frees_ = << >>
  /\ stats_ = OracleStatsInit
  /\ enq_log = << >>
  /\ deq_log = << >>

\* The timestamps the next event of the sorted events_ can carry.
NextTimestamps == {last_timestamp, last_timestamp + 1}

\* process_free as it would be if it executed the free at once instead of
\* queueing it.
process_free_immediate ==
  /\ mode = "oracle" /\ pc = "loop"
  /\ UNCHANGED notOracle
  /\ current_event_index_ < MaxEvents
  /\ \E id \in ObjIds, ts \in NextTimestamps :
       /\ pending_frees_' =
            Append(pending_frees_,
                   [timestamp |-> ts, object_id |-> id, index |-> current_event_index_])
       /\ last_timestamp' = ts
       /\ stats_' = IF id \in DOMAIN live_objects_
                    THEN record_free(stats_, live_objects_[id].size,
                                     Wrap(ts - live_objects_[id].alloc_time))
                    ELSE stats_
  /\ enq_log' = Append(enq_log, current_event_index_)
  /\ current_event_index_' = current_event_index_ + 1
  /\ UNCHANGED <<commonVars, cur_event, live_objects_, deq_log>>

\* replay(): the loop dispatches a Free event to process_free, which queues it.
process_free ==
  /\ mode = "oracle" /\ pc = "loop"
  /\ UNCHANGED notOracle
  /\ current_event_index_ < MaxEvents
  /\ \E id \in ObjIds, ts \in NextTimestamps :
       /\ pending_frees_' =
            Append(pending_frees_,
                   [timestamp |-> ts, object_id |-> id, index |-> current_event_index_])
       /\ last_timestamp' = ts
  /\ enq_log' = Append(enq_log, current_event_index_)
  /\ current_event_index_' = current_event_index_ + 1
  /\ UNCHANGED <<commonVars, cur_event, live_objects_, stats_, deq_log>>

\* replay(): the loop dispatches an Alloc event to process_allocation.
process_allocation_enter ==
  /\ mode = "oracle" /\ pc = "loop"
  /\ UNCHANGED notOracle
  /\ current_event_index_ < MaxEvents
  /\ \E id \in ObjIds, sz \in Sizes, ts \in NextTimestamps :
       /\ cur_event' = [timestamp |-> ts, object_id |-> id, size |-> sz]
       /\ last_timestamp' = ts
  /\ pc' = "alloc"
  /\ UNCHANGED <<mode, nextHandle, released, current_event_index_, live_objects_,
                 pending_frees_, stats_, enq_log, deq_log>>

\* The drain iteration as it would be if the freed object stayed in the table.
DrainIteration_no_erase ==
  LET free_event == Head(pending_frees_) IN
  IF free_event.object_id \notin DOMAIN live_objects_
  THEN /\ pending_frees_' = Tail(pending_frees_)
       /\ deq_log' = Append(deq_log, [index |-> free_event.index, handle |-> NULL])
       /\ UNCHANGED <<live_objects_, stats_, released>>
  ELSE LET obj == live_objects_[free_event.object_id]
           lifetime == Wrap(free_event.timestamp - obj.alloc_time)
       IN /\ released' = Release(released, obj.address)
          /\ stats_' = record_free(stats_, obj.size, lifetime)
          /\ live_objects_' = live_objects_
          /\ pending_frees_' = Tail(pending_frees_)
          /\ deq_log' =
               Append(deq_log, [index |-> free_event.index, handle |-> obj.address])

\* The drain iteration as it would be if it took the newest queued free.
DrainIteration_lifo ==
  LET n == Len(pending_frees_)
      free_event == pending_frees_[n]
  IN
  IF free_event.object_id \notin DOMAIN live_objects_
  THEN /\ pending_frees_' = SubSeq(pending_frees_, 1, n - 1)
       /\ deq_log' = Append(deq_log, [index |-> free_event.index, handle |-> NULL])
       /\ UNCHANGED <<live_objects_, stats_, released>>
  ELSE LET obj == live_objects_[free_event.object_id]
           lifetime == Wrap(free_event.timestamp - obj.alloc_time)
       IN /\ released' = Release(released, obj.address)
          /\ stats_' = record_free(stats_, obj.size, lifetime)
          /\ live_objects_' = Erase(live_objects_, free_event.object_id)
          /\ pending_frees_' = SubSeq(pending_frees_, 1, n - 1)
          /\ deq_log' =
               Append(deq_log, [index |-> free_event.index, handle |-> obj.address])

\* The drain iteration as it would be if a free of an unknown id were counted.
DrainIteration_counts_unknown ==
  LET free_event == Head(pending_frees_) IN
  IF free_event.object_id \notin DOMAIN live_objects_
  THEN /\ pending_frees_' = Tail(pending_frees_)
       /\ deq_log' = Append(deq_log, [index |-> free_event.index, handle |-> NULL])
       /\ stats_' = record_free(stats_, 0, 0)
       /\ UNCHANGED <<live_objects_, released>>
  ELSE LET obj == live_objects_[free_event.object_id]
           lifetime == Wrap(free_event.timestamp - obj.alloc_time)
       IN /\ released' = Release(released, obj.address)
          /\ stats_' = record_free(stats_, obj.size, lifetime)
          /\ live_objects_' = Erase(live_objects_, free_event.object_id)
          /\ pending_frees_' = Tail(pending_frees_)
          /\ deq_log' =
               Append(deq_log, [index |-> free_event.index, handle |-> obj.address])

\* The drain iteration as it would be if the unknown-id branch continued without
\* popping the queue.
DrainIteration_no_pop_unknown ==
  LET free_event == Head(pending_frees_) IN
  IF free_event.object_id \notin DOMAIN live_objects_
  THEN UNCHANGED <<pending_frees_, deq_log, live_objects_, stats_, released>>
  ELSE LET obj == live_objects_[free_event.object_id]
           lifetime == Wrap(free_event.timestamp - obj.alloc_time)
       IN /\ released' = Release(released, obj.address)
          /\ stats_' = record_free(stats_, obj.size, lifetime)
          /\ live_objects_' = Erase(live_objects_, free_event.object_id)
          /\ pending_frees_' = Tail(pending_frees_)
          /\ deq_log' =
               Append(deq_log, [index |-> free_event.index, handle |-> obj.address])

\* execute_pending_frees(): one iteration of the while loop.
DrainIteration ==
  LET free_event == Head(pending_frees_) IN
  IF free_event.object_id \notin DOMAIN live_objects_
  THEN /\ pending_frees_' = Tail(pending_frees_)
       /\ deq_log' = Append(deq_log, [index |-> free_event.index, handle |-> NULL])
       /\ UNCHANGED <<live_objects_, stats_, released>>
  ELSE LET obj == live_objects_[free_event.object_id]
           lifetime == Wrap(free_event.timestamp - obj.alloc_time)
       IN /\ released' = Release(released, obj.address)
          /\ stats_' = record_free(stats_, obj.size, lifetime)
          /\ live_objects_' = Erase(live_objects_, free_event.object_id)
          /\ pending_frees_' = Tail(pending_frees_)
          /\ deq_log' =
               Append(deq_log, [index |-> free_event.index, handle |-> obj.address])

\* process_allocation(): the drain that precedes the allocation.
execute_pending_frees_alloc ==
  /\ mode = "oracle" /\ pc = "alloc"
  /\ UNCHANGED notOracle
  /\ pending_frees_ # << >>
  /\ DrainIteration
  /\ UNCHANGED <<mode, pc, nextHandle, current_event_index_, last_timestamp,
                 cur_event, enq_log>>

\* process_allocation as it would be if it did not wait for the drain.
process_allocation_malloc_no_drain ==
  /\ mode = "oracle" /\ pc = "alloc"
  /\ UNCHANGED notOracle
  /\ \E ok \in BOOLEAN :
       IF ~ok
       THEN UNCHANGED <<nextHandle, live_objects_, stats_>>
       ELSE /\ nextHandle' = nextHandle + 1
            /\ live_objects_' =
                 Put(live_objects_, cur_event.object_id,
                     [address |-> nextHandle + 1, size |-> cur_event.size,
                      alloc_time |-> cur_event.timestamp])
            /\ stats_' = record_allocation(stats_, cur_event.size)
  /\ cur_event' = NoEvent
  /\ current_event_index_' = current_event_index_ + 1
  /\ pc' = "loop"
  /\ UNCHANGED <<mode, released, last_timestamp, pending_frees_, enq_log, deq_log>>

\* process_allocation(): do_malloc, then track and count the object.
process_allocation_malloc ==
  /\ mode = "oracle" /\ pc = "alloc"
  /\ UNCHANGED notOracle
  /\ pending_frees_ = << >>
  /\ \E ok \in BOOLEAN :
       IF ~ok
       THEN UNCHANGED <<nextHandle, live_objects_, stats_>>
       ELSE /\ nextHandle' = nextHandle + 1
            /\ live_objects_' =
                 Put(live_objects_, cur_event.object_id,
                     [address |-> nextHandle + 1, size |-> cur_event.size,
                      alloc_time |-> cur_event.timestamp])
            /\ stats_' = record_allocation(stats_, cur_event.size)
  /\ cur_event' = NoEvent
  /\ current_event_index_' = current_event_index_ + 1
  /\ pc' = "loop"
  /\ UNCHANGED <<mode, released, last_timestamp, pending_frees_, enq_log, deq_log>>

\* The end of replay() as it would be without the end-of-trace drain.
replay_end_no_drain ==
  /\ mode = "oracle" /\ pc = "loop"
  /\ UNCHANGED notOracle
  /\ current_event_index_ >= 1
  /\ pc' = "done"
  /\ UNCHANGED <<mode, nextHandle, released, oracleVars>>

\* replay(): the loop has consumed events_; residual frees are drained.
replay_end ==
  /\ mode = "oracle" /\ pc = "loop"
  /\ UNCHANGED notOracle
  /\ current_event_index_ >= 1
  /\ pc' = IF pending_frees_ # << >> THEN "end_drain" ELSE "done"
  /\ UNCHANGED <<mode, nextHandle, released, oracleVars>>

\* replay(): execute_pending_frees(0) at end of trace.
execute_pending_frees_end ==
  /\ mode = "oracle" /\ pc = "end_drain"
  /\ UNCHANGED notOracle
  /\ IF pending_frees_ # << >>
     THEN DrainIteration /\ pc' = pc
     ELSE /\ pc' = "done"
          /\ UNCHANGED <<released, live_objects_, pending_frees_, stats_, deq_log>>
  /\ UNCHANGED <<mode, nextHandle, current_event_index_, last_timestamp,
                 cur_event, enq_log>>

RECURSIVE ReleaseAll(_, _)
\* free() of every handle of the set hs.
ReleaseAll(rel, hs) ==
  IF hs = {} THEN rel
  ELSE LET h == CHOOSE x \in hs : TRUE IN ReleaseAll(Release(rel, h), hs \ {h})

\* ~OracleReplayer(): cleanup() frees what is left in live_objects_.
cleanup ==
  /\ mode = "oracle" /\ pc = "done"
  /\ UNCHANGED notOracle
  /\ released' =
       ReleaseAll(released, {live_objects_[k].address : k \in DOMAIN live_objects_})
  /\ live_objects_' = EmptyMap
  /\ pc' = "torn"
  /\ UNCHANGED <<mode, nextHandle, current_event_index_, last_timestamp, cur_event,
                 pending_frees_, stats_, enq_log, deq_log>>

NextOracle ==
  \/ process_free
  \/ process_allocation_enter
  \/ execute_pending_frees_alloc
  \/ process_allocation_malloc
  \/ replay_end
  \/ execute_pending_frees_end
  \/ cleanup

\* ============================== ExplicitMemoryManager / GCSimulator mode
\* GC byte thresholds of the sessions explored: a small one and main's default.
SmallGcThreshold == 2
DefaultGcThreshold == 10485760
GcThresholds == {SmallGcThreshold, DefaultGcThreshold}

\* GC allocation-count thresholds of the sessions explored.
MaxAllocThreshold == 2
AllocThresholds == {1, MaxAllocThreshold}

\* struct Statistics after construction (totalGCTime is wall-clock time and is
\* left out).
StatsInit ==
  [totalAllocations |-> 0, totalDeallocations |-> 0, totalBytesAllocated |-> 0,
   totalBytesFreed |-> 0, peakMemoryUsage |-> 0, currentMemoryUsage |-> 0,
   gcCollections |-> 0, fieldUpdates |-> 0, methodCalls |-> 0]

\* Statistics::recordAllocation as it would be without the update of the peak.
recordAllocation_no_peak(s, size) ==
  [s EXCEPT !.totalAllocations = Wrap(@ + 1),
            !.totalBytesAllocated = Wrap(@ + size),
            !.currentMemoryUsage = Wrap(@ + size)]

recordAllocation(s, size) ==
  LET cm == Wrap(s.currentMemoryUsage + size) IN
  [s EXCEPT !.totalAllocations = Wrap(@ + 1),
            !.totalBytesAllocated = Wrap(@ + size),
            !.currentMemoryUsage = cm,
            !.peakMemoryUsage = IF cm > @ THEN cm ELSE @]

\* Statistics::recordDeallocation as it would be without the update of the bytes
\* freed.
recordDeallocation_no_bytes(s, size) ==
  [s EXCEPT !.totalDeallocations = Wrap(@ + 1),
            !.currentMemoryUsage = Wrap(@ - size)]

recordDeallocation(s, size) ==
  [s EXCEPT !.totalDeallocations = Wrap(@ + 1),
            !.totalBytesFreed = Wrap(@ + size),
            !.currentMemoryUsage = Wrap(@ - size)]

recordGC(s) == [s EXCEPT !.gcCollections = Wrap(@ + 1)]

\* The manager object together with the backend it calls, as one value.
Manager ==
  [allocations |-> allocations, sizes |-> sizes, deadObjects |-> deadObjects,
   allocationsSinceLastGC |-> allocationsSinceLastGC, stats |-> stats,
   nextHandle |-> nextHandle, released |-> released]

\* The manager and backend variables take the value g.
SetManager(g) ==
  /\ allocations' = g.allocations
  /\ sizes' = g.sizes
  /\ deadObjects' = g.deadObjects
  /\ allocationsSinceLastGC' = g.allocationsSinceLastGC
  /\ stats' = g.stats
  /\ nextHandle' = g.nextHandle
  /\ released' = g.released

\* ExplicitMemoryManager::allocate; ok: the backend returned a handle.
Explicit_allocate(g, size, objectId, ok) ==
  IF ~ok THEN [g |-> g, ptr |-> NULL]
  ELSE LET ptr == g.nextHandle + 1 IN
       [g |-> [g EXCEPT !.nextHandle = ptr,
                        !.allocations = Put(@, objectId, ptr),
                        !.sizes = Put(@, objectId, size),
                        !.stats = recordAllocation(@, size)],
        ptr |-> ptr]

\* ExplicitMemoryManager::deallocate.
Explicit_deallocate(g, objectId) ==
  IF objectId \in DOMAIN g.allocations
  THEN [g EXCEPT !.released = Release(@, g.allocations[objectId]),
                 !.stats = recordDeallocation(@, g.sizes[objectId]),
                 !.allocations = Erase(@, objectId),
                 !.sizes = Erase(@, objectId)]
  ELSE g

RECURSIVE SweepDead(_, _)
\* GCSimulator::performGC, the sweep loop over the ids of deadObjects.
SweepDead(g, ids) ==
  IF ids = {} THEN g
  ELSE LET deadId == CHOOSE x \in ids : TRUE
           g1 == IF deadId \in DOMAIN g.allocations
                 THEN [g EXCEPT !.released = Release(@, g.allocations[deadId]),
                                !.stats = recordDeallocation(@, g.sizes[deadId]),
                                !.allocations = Erase(@, deadId),
                                !.sizes = Erase(@, deadId)]
                 ELSE g
       IN SweepDead(g1, ids \ {deadId})

\* GCSimulator::performGC as it would be if it left the dead set as it is.
performGC_keep_dead(g) ==
  LET g1 == SweepDead(g, g.deadObjects) IN
  [g1 EXCEPT !.allocationsSinceLastGC = 0,
             !.stats = recordGC(@)]

\* GCSimulator::performGC as it would be if every sweep counted one
\* deallocation of its own.
performGC_counts_itself(g) ==
  LET g1 == SweepDead(g, g.deadObjects) IN
  [g1 EXCEPT !.deadObjects = {},
             !.allocationsSinceLastGC = 0,
             !.stats = recordGC(recordDeallocation(@, 0))]

\* GCSimulator::performGC.
performGC(g) ==
  LET g1 == SweepDead(g, g.deadObjects) IN
  [g1 EXCEPT !.deadObjects = {},
             !.allocationsSinceLastGC = 0,
             !.stats = recordGC(@)]

\* GCSimulator::allocate as it would be if the count trigger compared with >=.
GC_allocate_inclusive(g, size, objectId, ok1, ok2) ==
  LET g0 == IF ok1 THEN g ELSE performGC(g) IN
  IF ~ok1 /\ ~ok2 THEN [g |-> g0, ptr |-> NULL]
  ELSE LET ptr == g0.nextHandle + 1
           g1 == [g0 EXCEPT !.nextHandle = ptr,
                            !.allocations = Put(@, objectId, ptr),
                            !.sizes = Put(@, objectId, size),
                            !.stats = recordAllocation(@, size),
                            !.allocationsSinceLastGC = @ + 1]
           g2 == IF \/ g1.stats.currentMemoryUsage > gcThreshold
                    \/ g1.allocationsSinceLastGC >= allocationThreshold
                 THEN performGC(g1) ELSE g1
       IN [g |-> g2, ptr |-> ptr]

\* GCSimulator::allocate as it would be if it retried without collecting first.
GC_allocate_no_collect(g, size, objectId, ok1, ok2) ==
  IF ~ok1 /\ ~ok2 THEN [g |-> g, ptr |-> NULL]
  ELSE LET ptr == g.nextHandle + 1
           g1 == [g EXCEPT !.nextHandle = ptr,
                           !.allocations = Put(@, objectId, ptr),
                           !.sizes = Put(@, objectId, size),
                           !.stats = recordAllocation(@, size),
                           !.allocationsSinceLastGC = @ + 1]
           g2 == IF \/ g1.stats.currentMemoryUsage > gcThreshold
                    \/ g1.allocationsSinceLastGC > allocationThreshold
                 THEN performGC(g1) ELSE g1
       IN [g |-> g2, ptr |-> ptr]

\* GCSimulator::allocate; ok1, ok2: the backend returned a handle at the first
\* attempt, at the retry.
GC_allocate(g, size, objectId, ok1, ok2) ==
  LET g0 == IF ok1 THEN g ELSE performGC(g) IN
  IF ~ok1 /\ ~ok2 THEN [g |-> g0, ptr |-> NULL]
  ELSE LET ptr == g0.nextHandle + 1
           g1 == [g0 EXCEPT !.nextHandle = ptr,
                            !.allocations = Put(@, objectId, ptr),
                            !.sizes = Put(@, objectId, size),
                            !.stats = recordAllocation(@, size),
                            !.allocationsSinceLastGC = @ + 1]
           g2 == IF \/ g1.stats.currentMemoryUsage > gcThreshold
                    \/ g1.allocationsSinceLastGC > allocationThreshold
                 THEN performGC(g1) ELSE g1
       IN [g |-> g2, ptr |-> ptr]

\* GCSimulator::deallocate as it would be if it also released the object at once.
GC_deallocate_immediate(g, objectId) ==
  LET g1 == [g EXCEPT !.deadObjects = @ \cup {objectId}] IN
  IF objectId \in DOMAIN g.allocations
  THEN [g1 EXCEPT !.released = Release(@, g.allocations[objectId]),
                  !.stats = recordDeallocation(@, g.sizes[objectId]),
                  !.allocations = Erase(@, objectId),
                  !.sizes = Erase(@, objectId)]
  ELSE g1

\* GCSimulator::deallocate.
GC_deallocate(g, objectId) == [g EXCEPT !.deadObjects = @ \cup {objectId}]

\* GCSimulator::finalGC.
finalGC(g) == performGC([g EXCEPT !.deadObjects = @ \cup DOMAIN g.allocations])

\* ~ExplicitMemoryManager / ~GCSimulator.
Destructor(g) ==
  [g EXCEPT !.released =
     ReleaseAll(@, {g.allocations[k] : k \in DOMAIN g.allocations})]

\* memoryManager->allocate, dispatched on the manager's class.
allocate(g, size, objectId, ok1, ok2) ==
  IF mode = "gc" THEN GC_allocate(g, size, objectId, ok1, ok2)
  ELSE Explicit_allocate(g, size, objectId, ok1)

\* memoryManager->deallocate, dispatched on the manager's class.
deallocate(g, objectId) ==
  IF mode = "gc" THEN GC_deallocate(g, objectId) ELSE Explicit_deallocate(g, objectId)

\* TraceReplayer::handleObjectAllocation for the record "N objectId size ...".
handleObjectAllocationOf(objectId, size, ok1, ok2) ==
  /\ mode \in {"explicit", "gc"} /\ pc = "run"
  /\ UNCHANGED notEnhanced
  /\ lineNumber < MaxLines
  /\ LET r == allocate(Manager, size, objectId, ok1, ok2) IN
       /\ SetManager(r.g)
       /\ liveObjects' = Put(liveObjects, objectId, [size |-> size, address |-> r.ptr])
  /\ lineNumber' = lineNumber + 1
  /\ UNCHANGED <<mode, pc, gcThreshold, allocationThreshold, marked>>

handleObjectAllocation ==
  \E objectId \in ObjIds, size \in Sizes, ok1 \in BOOLEAN :
    \E ok2 \in (IF mode = "gc" /\ ~ok1 THEN BOOLEAN ELSE {TRUE}) :
      handleObjectAllocationOf(objectId, size, ok1, ok2)

\* TraceReplayer::handleObjectDeath for the record "D objectId ...".
handleObjectDeathOf(objectId) ==
  /\ mode \in {"explicit", "gc"} /\ pc = "run"
  /\ UNCHANGED notEnhanced
  /\ lineNumber < MaxLines
  /\ IF objectId \in DOMAIN liveObjects
     THEN /\ SetManager(deallocate(Manager, objectId))
          /\ liveObjects' = Erase(liveObjects, objectId)
     ELSE UNCHANGED <<mgrVars, nextHandle, released, liveObjects>>
  /\ marked' = IF objectId \in DOMAIN allocations
               THEN marked \cup {allocations[objectId]} ELSE marked
  /\ lineNumber' = lineNumber + 1
  /\ UNCHANGED <<mode, pc, gcThreshold, allocationThreshold>>

handleObjectDeath == \E objectId \in ObjIds : handleObjectDeathOf(objectId)

\* main(): replayTrace has returned; GC mode runs finalGC.
main_finalGC ==
  /\ mode \in {"explicit", "gc"} /\ pc = "run"
  /\ UNCHANGED notEnhanced
  /\ IF mode = "gc" THEN SetManager(finalGC(Manager))
     ELSE UNCHANGED <<mgrVars, nextHandle, released>>
  /\ pc' = "done"
  /\ UNCHANGED <<mode, gcThreshold, allocationThreshold, liveObjects, lineNumber, marked>>

\* main(): delete memSim.
delete_memSim ==
  /\ mode \in {"explicit", "gc"} /\ pc = "done"
  /\ UNCHANGED notEnhanced
  /\ SetManager(Destructor(Manager))
  /\ pc' = "torn"
  /\ UNCHANGED <<mode, gcThreshold, allocationThreshold, liveObjects, lineNumber, marked>>

NextEnhanced ==
  \/ handleObjectAllocation
  \/ handleObjectDeath
  \/ main_finalGC
  \/ delete_memSim

\* ============================================================ C replayer
HASH_SIZE == 65536

\* Object ids of the C replayer's traces: ObjIds and one id that shares the
\* bucket of id 1.
CObjIds == ObjIds \cup {HASH_SIZE + 1}

\* hash(); the ids explored are non-negative, where the cast changes nothing.
hash(object_id) == object_id % HASH_SIZE

\* The buckets the explored ids fall into.
Buckets == {hash(i) : i \in CObjIds}

\* init_stats().
CStatsInit ==
  [table |-> [b \in Buckets |-> << >>],
   total_allocations |-> 0, total_frees |-> 0, total_bytes_allocated |-> 0,
   total_bytes_freed |-> 0, current_bytes |-> 0, peak_bytes |-> 0,
   live_objects |-> 0, failed_allocations |-> 0, failed_frees |-> 0]

\* Position of the first node of the chain with this id, 0 when there is none.
ChainIndex(chain, object_id) ==
  IF \E i \in 1..Len(chain) : chain[i].object_id = object_id
  THEN CHOOSE i \in 1..Len(chain) :
         /\ chain[i].object_id = object_id
         /\ \A j \in 1..(i - 1) : chain[j].object_id # object_id
  ELSE 0

\* find_allocation(): the node found, as its position in the chain of its
\* bucket; 0 is NULL.
find_allocation(st, object_id) == ChainIndex(st.table[hash(object_id)], object_id)

\* insert_allocation as it would be if it linked the new node at the end of the
\* chain.
insert_allocation_at_tail(st, object_id, ptr, size, okNode) ==
  IF ~okNode THEN st
  ELSE [st EXCEPT !.table[hash(object_id)] =
          @ \o <<[object_id |-> object_id, ptr |-> ptr, size |-> size]>>]

\* insert_allocation(); okNode: malloc returned the tracking node.
insert_allocation(st, object_id, ptr, size, okNode) ==
  IF ~okNode THEN st
  ELSE [st EXCEPT !.table[hash(object_id)] =
          <<[object_id |-> object_id, ptr |-> ptr, size |-> size]>> \o @]

\* remove_allocation().
remove_allocation(st, object_id) ==
  LET chain == st.table[hash(object_id)]
      i == ChainIndex(chain, object_id)
  IN IF i = 0 THEN st
     ELSE [st EXCEPT !.table[hash(object_id)] =
             SubSeq(chain, 1, i - 1) \o SubSeq(chain, i + 1, Len(chain))]

\* handle_alloc(); ok: malloc returned the object, okNode: the tracking node.
handle_alloc(object_id, size, ok, okNode) ==
  /\ mode = "c" /\ pc = "run"
  /\ UNCHANGED notC
  /\ line_count < MaxRows
  /\ IF ~ok
     THEN /\ g_stats' = [g_stats EXCEPT !.failed_allocations = Wrap(@ + 1)]
          /\ UNCHANGED nextHandle
     ELSE LET ptr == nextHandle + 1
              st1 == insert_allocation(g_stats, object_id, ptr, size, okNode)
              cb == Wrap(st1.current_bytes + size)
          IN /\ nextHandle' = ptr
             /\ g_stats' = [st1 EXCEPT !.total_allocations = Wrap(@ + 1),
                                       !.total_bytes_allocated = Wrap(@ + size),
                                       !.current_bytes = cb,
                                       !.live_objects = Wrap(@ + 1),
                                       !.peak_bytes = IF cb > @ THEN cb ELSE @]
  /\ line_count' = line_count + 1
  /\ UNCHANGED <<mode, pc, released>>

\* handle_free().
handle_free(object_id) ==
  /\ mode = "c" /\ pc = "run"
  /\ UNCHANGED notC
  /\ line_count < MaxRows
  /\ LET found == find_allocation(g_stats, object_id)
         alloc == g_stats.table[hash(object_id)][found]
     IN
     IF found = NULL
     THEN /\ g_stats' = [g_stats EXCEPT !.failed_frees = Wrap(@ + 1)]
          /\ UNCHANGED released
     ELSE /\ released' = Release(released, alloc.ptr)
          /\ g_stats' =
               remove_allocation(
                 [g_stats EXCEPT !.total_frees = Wrap(@ + 1),
                                 !.total_bytes_freed = Wrap(@ + alloc.size),
                                 !.current_bytes = Wrap(@ - alloc.size),
                                 !.live_objects = Wrap(@ - 1)],
                 object_id)
  /\ line_count' = line_count + 1
  /\ UNCHANGED <<mode, pc, nextHandle>>

\* parse_csv_line(): an "alloc" row.
parse_csv_line_alloc ==
  \E object_id \in CObjIds, size \in Sizes, ok \in BOOLEAN :
    \E okNode \in (IF ok THEN BOOLEAN ELSE {TRUE}) :
      handle_alloc(object_id, size, ok, okNode)

\* parse_csv_line(): a "free" row.
parse_csv_line_free == \E object_id \in CObjIds : handle_free(object_id)

\* The ptr fields of all nodes of the table.
TablePtrs(st) ==
  {st.table[b][i].ptr : <<b, i>> \in
     {<<b, i>> \in Buckets \X (1..MaxRows) : i <= Len(st.table[b])}}

\* main(): the cleanup loop after the statistics are printed.
main_cleanup ==
  /\ mode = "c" /\ pc = "run"
  /\ UNCHANGED notC
  /\ released' = ReleaseAll(released, TablePtrs(g_stats))
  /\ g_stats' = g_stats
  /\ pc' = "torn"
  /\ UNCHANGED <<mode, nextHandle, line_count>>

NextC ==
  \/ parse_csv_line_alloc
  \/ parse_csv_line_free
  \/ main_cleanup

\* ========================================================= specifications
\* The manager and driver after construction.
EnhancedInitVars ==
  /\ allocations = EmptyMap
  /\ sizes = EmptyMap
  /\ deadObjects = {}
  /\ allocationsSinceLastGC = 0
  /\ stats = StatsInit
  /\ liveObjects = EmptyMap
  /\ lineNumber = 0
  /\ marked = {}

BackendInit ==
  /\ nextHandle = 0
  /\ released = EmptyMap

CInitVars ==
  /\ g_stats = CStatsInit
  /\ line_count = 0

NoExit == -1

\* load_oracle has returned: the file is consumed.  Replay draws the events of the
\* sorted list one by one, so events_ itself is left empty here.
LoaderDone ==
  /\ file = << >>
  /\ file_pos = 0
  /\ header_skipped = TRUE
  /\ events_ = << >>

\* Statistics: the per-site map starts empty and nothing is printed yet.
SitesInit ==
  /\ allocations_per_site = EmptyMap
  /\ bytes_per_site = EmptyMap
  /\ first_seen = << >>
  /\ sites = << >>

\* main() has parsed a well-formed command line with the default allocator.
MainStarted ==
  /\ argc = 3
  /\ traceFile = "readable"
  /\ allocatorName = "standard"
  /\ build = [USE_MIMALLOC |-> FALSE, USE_JEMALLOC |-> FALSE]
  /\ allocator = "standard"
  /\ exit_code = NoExit

AuxInit == LoaderDone /\ SitesInit /\ MainStarted

InitOracle ==
  /\ mode = "oracle"
  /\ pc = "loop"
  /\ BackendInit
  /\ OracleInitVars
  /\ EnhancedInitVars
  /\ CInitVars
  /\ AuxInit
  /\ gcThreshold = DefaultGcThreshold
  /\ allocationThreshold = MaxAllocThreshold

InitExplicit ==
  /\ mode = "explicit"
  /\ pc = "run"
  /\ BackendInit
  /\ OracleInitVars
  /\ EnhancedInitVars
  /\ CInitVars
  /\ AuxInit
  /\ gcThreshold = DefaultGcThreshold
  /\ allocationThreshold = MaxAllocThreshold

InitGC ==
  /\ mode = "gc"
  /\ pc = "run"
  /\ BackendInit
  /\ OracleInitVars
  /\ EnhancedInitVars
  /\ CInitVars
  /\ AuxInit
  /\ gcThreshold \in GcThresholds
  /\ allocationThreshold \in AllocThresholds

SpecOracle == InitOracle /\ [][NextOracle]_vars

\* The replayer is one thread that runs main() to its end: whenever a step of the
\* program is possible, one is taken.
\* Length of the event lists the runs to completion are explored over.
MaxFairEvents == 3

\* A step of replay over an event list of at most MaxFairEvents events.
NextOracleShort ==
  /\ NextOracle
  /\ (pc = "loop" /\ current_event_index_ >= MaxFairEvents) => pc' \notin {"loop", "alloc"}

FairSpecOracle == InitOracle /\ [][NextOracleShort]_vars /\ WF_vars(NextOracleShort)

SpecExplicit == InitExplicit /\ [][NextEnhanced]_vars

SpecGC == InitGC /\ [][NextEnhanced]_vars

InitC ==
  /\ mode = "c"
  /\ pc = "run"
  /\ BackendInit
  /\ OracleInitVars
  /\ EnhancedInitVars
  /\ CInitVars
  /\ AuxInit
  /\ gcThreshold = DefaultGcThreshold
  /\ allocationThreshold = MaxAllocThreshold

SpecC == InitC /\ [][NextC]_vars

\* A session in any of the modes.
Init == InitOracle \/ InitExplicit \/ InitGC \/ InitC

Next == NextOracle \/ NextEnhanced \/ NextC

Spec == Init /\ [][Next]_vars

\* ---------------------------------------------------------------------------
\* OracleReplayer::load_oracle (OracleReplayer.cpp)
\* ---------------------------------------------------------------------------

\* Longest CSV file, header line included.
MaxFileLines == 4
\* Largest timestamp a row carries.
MaxStamp == 2

\* A line of the file, by what load_oracle and parse_event do with it: "event" has
\* seven fields that std::stoull / std::stoul accept, "short" runs out of fields
\* before the seventh, "bad" has a field std::stoull rejects, "empty" is an empty
\* line.  `line` is the line's position in the file.
FileLines(n) ==
  [kind : {"event"}, timestamp : 1..MaxStamp, line : {n}]
    \cup [kind : {"short", "bad", "empty"}, timestamp : {0}, line : {n}]

Files ==
  UNION {{f \in [1..n -> UNION {FileLines(k) : k \in 1..n}] :
            \A k \in 1..n : f[k].line = k} : n \in 0..MaxFileLines}

\* parse_event: "true" fills the event, "false" is the early return on a missing
\* field, "throw" is the std::invalid_argument std::stoull raises.
parse_event(line) ==
  CASE line.kind = "short" -> "false"
    [] line.kind = "bad" -> "throw"
    [] OTHER -> "true"

Event(line) == [timestamp |-> line.timestamp, line |-> line.line]

Range(s) == {s[i] : i \in DOMAIN s}

\* std::sort with the comparator a.timestamp < b.timestamp: the result is a
\* permutation in ascending timestamp order; the order of elements that compare
\* equal is unspecified.
SortByTimestamp(s) ==
  {t \in [1..Len(s) -> Range(s)] :
     /\ Range(t) = Range(s)
     /\ \A i \in 1..Len(s) - 1 : t[i].timestamp <= t[i + 1].timestamp}

notLoader == <<mode, nextHandle, released, oracleVars, enhVars, cVars, siteVars, mainVars>>

\* load_oracle: one iteration of the getline loop.  main() has no handler for the
\* exception parse_event lets through, so the process terminates.
load_oracle_getline ==
  /\ mode = "oracle" /\ pc = "load"
  /\ file_pos < Len(file)
  /\ UNCHANGED notLoader
  /\ file_pos' = file_pos + 1
  /\ UNCHANGED file
  /\ LET line == file[file_pos + 1] IN
       IF ~header_skipped
       THEN /\ header_skipped' = TRUE
            /\ UNCHANGED <<events_, pc>>
       ELSE /\ UNCHANGED header_skipped
            /\ IF line.kind = "empty"
               THEN UNCHANGED <<events_, pc>>
               ELSE CASE parse_event(line) = "true" ->
                           /\ events_' = Append(events_, Event(line))
                           /\ UNCHANGED pc
                      [] parse_event(line) = "false" -> UNCHANGED <<events_, pc>>
                      [] parse_event(line) = "throw" ->
                           /\ pc' = "aborted"
                           /\ UNCHANGED events_

\* load_oracle: end of file; sort and return events_.size() > 0.
load_oracle_sort ==
  /\ mode = "oracle" /\ pc = "load"
  /\ file_pos = Len(file)
  /\ UNCHANGED notLoader
  /\ events_' \in SortByTimestamp(events_)
  /\ pc' = IF Len(events_) > 0 THEN "loaded" ELSE "failed"
  /\ UNCHANGED <<file, file_pos, header_skipped>>

NextLoad == load_oracle_getline \/ load_oracle_sort

InitLoad ==
  /\ mode = "oracle"
  /\ pc = "load"
  /\ BackendInit
  /\ OracleInitVars
  /\ EnhancedInitVars
  /\ CInitVars
  /\ SitesInit
  /\ MainStarted
  /\ gcThreshold = DefaultGcThreshold
  /\ allocationThreshold = MaxAllocThreshold
  /\ file \in Files
  /\ file_pos = 0
  /\ header_skipped = FALSE
  /\ events_ = << >>

SpecLoad == InitLoad /\ [][NextLoad]_vars

\* ---------------------------------------------------------------------------
\* Statistics: per-site counts and the hot-site list (OracleReplayer.h)
\* ---------------------------------------------------------------------------

\* Largest site id of the explored traces.
MaxSites == 3
\* Number of allocations recorded before the report is printed.
MaxSiteAllocs == 4
SiteIds == 1..MaxSites

\* print() shows std::min(sites.size(), size_t(10)) rows; the limit is scaled to 2
\* so that the explored traces have more sites than rows.
HotSiteLimit == 2

Min(a, b) == IF a < b THEN a ELSE b

\* operator[] on a std::map<uint32_t, uint64_t>: a missing key reads as 0.
At(m, k) == IF k \in DOMAIN m THEN m[k] ELSE 0

\* std::sort with the comparator a.second > b.second over the (site, count) pairs
\* of the map: any arrangement in descending count order; the order of pairs with
\* equal counts is unspecified.
SortByCount(m) ==
  LET pairs == {[site |-> k, count |-> m[k]] : k \in DOMAIN m}
      n == Cardinality(pairs)
  IN {t \in [1..n -> pairs] :
        /\ Range(t) = pairs
        /\ \A i \in 1..n - 1 : t[i].count >= t[i + 1].count}

notSites == <<mode, nextHandle, released, current_event_index_, last_timestamp, cur_event,
              live_objects_, pending_frees_, enq_log, deq_log, enhVars, cVars,
              loaderVars, mainVars>>

\* Statistics::record_allocation(size, site_id).
Statistics_record_allocation ==
  /\ mode = "oracle" /\ pc = "sites"
  /\ stats_.total_allocations < MaxSiteAllocs
  /\ UNCHANGED notSites
  /\ \E size \in Sizes, site_id \in SiteIds :
       /\ stats_' = record_allocation(stats_, size)
       /\ allocations_per_site' =
            Put(allocations_per_site, site_id, Wrap(At(allocations_per_site, site_id) + 1))
       /\ bytes_per_site' =
            Put(bytes_per_site, site_id, Wrap(At(bytes_per_site, site_id) + size))
       /\ first_seen' = IF site_id \in DOMAIN allocations_per_site
                        THEN first_seen ELSE Append(first_seen, site_id)
  /\ UNCHANGED <<pc, sites>>

\* Statistics::print(): the "Hot Allocation Sites" rows.
Statistics_print ==
  /\ mode = "oracle" /\ pc = "sites"
  /\ UNCHANGED notSites
  /\ \E sorted \in SortByCount(allocations_per_site) :
       sites' = [i \in 1..Min(Len(sorted), HotSiteLimit) |->
                   [site |-> sorted[i].site, count |-> sorted[i].count,
                    bytes |-> bytes_per_site[sorted[i].site]]]
  /\ pc' = "printed"
  /\ UNCHANGED <<stats_, allocations_per_site, bytes_per_site, first_seen>>

NextSites == Statistics_record_allocation \/ Statistics_print

InitSites ==
  /\ mode = "oracle"
  /\ pc = "sites"
  /\ BackendInit
  /\ OracleInitVars
  /\ EnhancedInitVars
  /\ CInitVars
  /\ AuxInit
  /\ gcThreshold = DefaultGcThreshold
  /\ allocationThreshold = MaxAllocThreshold

SpecSites == InitSites /\ [][NextSites]_vars

\* ---------------------------------------------------------------------------
\* Field updates and method records (TraceReplayerEnhanced.cpp)
\* ---------------------------------------------------------------------------

\* sizeof(void*): the width of the store *tgtAddr = srcAddr.
PointerSize == 8

\* updateField as it would be if a field update were counted as an allocation too.
updateField_counts_allocation(g, tgtObjId, srcObjId) ==
  [g EXCEPT !.stats.fieldUpdates = Wrap(@ + 1),
            !.stats.totalAllocations = Wrap(@ + 1)]

\* ExplicitMemoryManager::updateField / GCSimulator::updateField: the manager after
\* the call.  The pointer store goes to backend memory, which the manager's fields
\* do not hold.
updateField(g, tgtObjId, srcObjId) ==
  [g EXCEPT !.stats.fieldUpdates = Wrap(@ + 1)]

\* updateField: whether the store *tgtAddr = srcAddr is executed.
updateField_stores(g, tgtObjId, srcObjId) ==
  tgtObjId \in DOMAIN g.allocations /\ srcObjId \in DOMAIN g.allocations

\* updateField: the byte offsets from allocations[tgtObjId] the store writes.
updateField_offsets(g, tgtObjId, srcObjId) ==
  IF updateField_stores(g, tgtObjId, srcObjId) THEN 0..PointerSize - 1 ELSE {}

methodEntry(g) == [g EXCEPT !.stats.methodCalls = Wrap(@ + 1)]

methodExit(g) == g

\* TraceReplayer::handleFieldUpdate for the record "U tgtObjId srcObjId ...".  A
\* store through a null allocations[tgtObjId] ends the process.  A store that runs
\* past a region shorter than a pointer lands in the padding every backend gives
\* its smallest blocks, so it changes nothing the replayer reads.
handleFieldUpdateOf(tgtObjId, srcObjId) ==
  /\ mode \in {"explicit", "gc"} /\ pc = "run"
  /\ UNCHANGED notEnhanced
  /\ lineNumber < MaxLines
  /\ SetManager(updateField(Manager, tgtObjId, srcObjId))
  /\ pc' = IF updateField_stores(Manager, tgtObjId, srcObjId)
              /\ allocations[tgtObjId] = NULL
           THEN "crashed" ELSE pc
  /\ lineNumber' = lineNumber + 1
  /\ UNCHANGED <<mode, gcThreshold, allocationThreshold, liveObjects, marked>>

handleFieldUpdate ==
  \E tgtObjId \in ObjIds, srcObjId \in ObjIds : handleFieldUpdateOf(tgtObjId, srcObjId)

\* TraceReplayer::handleMethodEntry for the record "M ...".
handleMethodEntry ==
  /\ mode \in {"explicit", "gc"} /\ pc = "run"
  /\ UNCHANGED notEnhanced
  /\ lineNumber < MaxLines
  /\ SetManager(methodEntry(Manager))
  /\ lineNumber' = lineNumber + 1
  /\ UNCHANGED <<mode, pc, gcThreshold, allocationThreshold, liveObjects, marked>>

\* TraceReplayer::handleMethodExit for the record "E ...".
handleMethodExit ==
  /\ mode \in {"explicit", "gc"} /\ pc = "run"
  /\ UNCHANGED notEnhanced
  /\ lineNumber < MaxLines
  /\ SetManager(methodExit(Manager))
  /\ lineNumber' = lineNumber + 1
  /\ UNCHANGED <<mode, pc, gcThreshold, allocationThreshold, liveObjects, marked>>

\* processTraceLine with every record type of the trace format.
NextTrace ==
  \/ handleObjectAllocation
  \/ handleObjectDeath
  \/ handleFieldUpdate
  \/ handleMethodEntry
  \/ handleMethodExit
  \/ main_finalGC
  \/ delete_memSim

SpecTrace == (InitExplicit \/ InitGC) /\ [][NextTrace]_vars

\* ---------------------------------------------------------------------------
\* createAllocator (AllocatorBackend.h)
\* ---------------------------------------------------------------------------

\* A null const char* / a null AllocatorBackend*.
NullPtr == "nullptr"

\* The names createAllocator is called with: null, the three backends the header
\* knows, and strings that strcmp tells apart from them.
AllocatorNames ==
  {NullPtr, "standard", "mimalloc", "jemalloc", "", "Standard", "STANDARD", "std",
   "standard ", "mimalloc2", "Jemalloc", "tcmalloc", "hoard", "glibc", "default"}

Builds == [USE_MIMALLOC : BOOLEAN, USE_JEMALLOC : BOOLEAN]

\* createAllocator as it would be if an unknown name yielded no backend.
createAllocator_null_on_unknown(allocator_name, b) ==
  IF allocator_name = NullPtr \/ allocator_name = "standard" THEN "standard"
  ELSE IF b.USE_MIMALLOC /\ allocator_name = "mimalloc" THEN "mimalloc"
  ELSE IF b.USE_JEMALLOC /\ allocator_name = "jemalloc" THEN "jemalloc"
  ELSE NullPtr

\* createAllocator in a build with the flags b: name() of the backend it returns.
createAllocator(allocator_name, b) ==
  IF allocator_name = NullPtr \/ allocator_name = "standard" THEN "standard"
  ELSE IF b.USE_MIMALLOC /\ allocator_name = "mimalloc" THEN "mimalloc"
  ELSE IF b.USE_JEMALLOC /\ allocator_name = "jemalloc" THEN "jemalloc"
  ELSE "standard"

notMain == <<nextHandle, released, oracleVars, enhVars, cVars, loaderVars, siteVars>>

\* A call of createAllocator(allocatorName).
createAllocator_call ==
  /\ pc = "factory"
  /\ UNCHANGED notMain
  /\ allocator' = createAllocator(allocatorName, build)
  /\ pc' = "created"
  /\ UNCHANGED <<mode, argc, traceFile, allocatorName, build, exit_code>>

\* The backend is deleted again.
delete_allocator ==
  /\ pc = "created"
  /\ UNCHANGED notMain
  /\ allocator' = NullPtr
  /\ pc' = "deleted"
  /\ UNCHANGED <<mode, argc, traceFile, allocatorName, build, exit_code>>

NextFactory == createAllocator_call \/ delete_allocator

InitFactory ==
  /\ mode = "explicit"
  /\ pc = "factory"
  /\ BackendInit
  /\ OracleInitVars
  /\ EnhancedInitVars
  /\ CInitVars
  /\ LoaderDone
  /\ SitesInit
  /\ gcThreshold = DefaultGcThreshold
  /\ allocationThreshold = MaxAllocThreshold
  /\ argc = 3
  /\ traceFile = "readable"
  /\ allocatorName \in AllocatorNames
  /\ build \in Builds
  /\ allocator = NullPtr
  /\ exit_code = NoExit

SpecFactory == InitFactory /\ [][NextFactory]_vars

\* ---------------------------------------------------------------------------
\* main (TraceReplayerEnhanced.cpp)
\* ---------------------------------------------------------------------------

\* Number of trace lines a session of SpecMain replays.
MaxMainLines == 1

\* main(): argc < 3 prints the usage and returns 1.
main_usage ==
  /\ pc = "start"
  /\ argc < 3
  /\ UNCHANGED notMain
  /\ exit_code' = 1
  /\ pc' = "exited"
  /\ UNCHANGED <<mode, argc, traceFile, allocatorName, build, allocator>>

\* main(): the options are parsed and the backend is created.
main_createAllocator ==
  /\ pc = "start"
  /\ argc >= 3
  /\ UNCHANGED notMain
  /\ allocator' = createAllocator(allocatorName, build)
  /\ pc' = "mode"
  /\ UNCHANGED <<mode, argc, traceFile, allocatorName, build, exit_code>>

\* main(): a mode other than "explicit" and "gc" deletes the backend and returns 1.
main_unknown_mode ==
  /\ pc = "mode"
  /\ mode \notin {"explicit", "gc"}
  /\ UNCHANGED notMain
  /\ allocator' = NullPtr
  /\ exit_code' = 1
  /\ pc' = "exited"
  /\ UNCHANGED <<mode, argc, traceFile, allocatorName, build>>

\* main(): the manager is constructed and replayTrace is called.  replayTrace
\* returns at once when the file cannot be opened, and main goes on either way.
main_replayTrace ==
  /\ pc = "mode"
  /\ mode \in {"explicit", "gc"}
  /\ UNCHANGED notMain
  /\ pc' = "run"
  /\ UNCHANGED <<mode, mainVars>>

\* replayTrace: the getline loop, which runs only over an opened file.
replayTrace_line ==
  /\ traceFile = "readable"
  /\ lineNumber < MaxMainLines
  /\ \/ handleObjectAllocation
     \/ handleObjectDeath
     \/ handleFieldUpdate
     \/ handleMethodEntry
     \/ handleMethodExit

\* main(): delete allocator; return 0.
main_return ==
  /\ pc = "torn"
  /\ UNCHANGED notMain
  /\ allocator' = NullPtr
  /\ exit_code' = 0
  /\ pc' = "exited"
  /\ UNCHANGED <<mode, argc, traceFile, allocatorName, build>>

NextMain ==
  \/ main_usage
  \/ main_createAllocator
  \/ main_unknown_mode
  \/ main_replayTrace
  \/ replayTrace_line
  \/ main_finalGC
  \/ delete_memSim
  \/ main_return

InitMain ==
  /\ mode \in {"explicit", "gc", "bogus"}
  /\ pc = "start"
  /\ BackendInit
  /\ OracleInitVars
  /\ EnhancedInitVars
  /\ CInitVars
  /\ LoaderDone
  /\ SitesInit
  /\ IF mode = "gc"
     THEN gcThreshold \in GcThresholds /\ allocationThreshold \in AllocThresholds
     ELSE gcThreshold = DefaultGcThreshold /\ allocationThreshold = MaxAllocThreshold
  /\ argc \in {2, 3}
  /\ traceFile \in {"readable", "missing"}
  /\ allocatorName \in {"standard", "jemalloc"}
  /\ build \in Builds
  /\ allocator = NullPtr
  /\ exit_code = NoExit

SpecMain == InitMain /\ [][NextMain]_vars

\* ================================================================= claims
\* Sum of the recorded sizes of the entries of live_objects_.
OracleTableBytes ==
  SumOver([k \in DOMAIN live_objects_ |-> live_objects_[k].size], DOMAIN live_objects_)

\* Sum of the recorded sizes of the manager's table.
ManagerTableBytes == SumOver(sizes, DOMAIN sizes)

\* The session is still replaying or finalizing, not torn down.
Replaying == pc # "torn"

\* C1: after any prefix of the events, current-live-bytes equals the sum of the
\* recorded sizes of the live table (Oracle replayer, explicit and GC managers),
\* also when an id that is already live is allocated again.
C1_LiveBytesEqualTableSum ==
  Replaying =>
    /\ mode = "oracle" => stats_.current_memory = OracleTableBytes
    /\ mode \in {"explicit", "gc"} => stats.currentMemoryUsage = ManagerTableBytes

\* The change of a counter over one step, as an integer.
OracleStep(field) == stats_'[field] - stats_[field]
ManagerStep(field) == stats'[field] - stats[field]
CStep(field) == g_stats'[field] - g_stats[field]

\* C2: in every mode current-live-bytes never wraps below zero: over every step
\* the counter moves by exactly the bytes allocated minus the bytes reclaimed in
\* that step, taken as integers, and a collection that runs before anything is
\* added (the retry path of the GC allocate, finalGC) never sweeps more bytes
\* than the counter holds.
C2_CurrentBytesNeverWrap ==
  [][/\ stats_.current_memory' =
          stats_.current_memory + OracleStep("bytes_allocated") - OracleStep("bytes_freed")
     /\ stats.currentMemoryUsage' =
          stats.currentMemoryUsage + ManagerStep("totalBytesAllocated")
            - ManagerStep("totalBytesFreed")
     /\ g_stats.current_bytes' =
          g_stats.current_bytes + CStep("total_bytes_allocated") - CStep("total_bytes_freed")
     /\ mode = "gc" => ManagerTableBytes <= stats.currentMemoryUsage
    ]_vars

\* C2 witness: an Oracle replay has ended in which one queued free released an
\* object, another was discarded for an unknown id, and the counter is back at 0.
C2_Witness ==
  /\ mode = "oracle" /\ pc = "done"
  /\ \E i \in 1..Len(deq_log) : deq_log[i].handle = NULL
  /\ \E i \in 1..Len(deq_log) : deq_log[i].handle # NULL
  /\ stats_.current_memory = 0
  /\ stats_.bytes_freed > 0

\* C3: in Oracle mode the pending-free queue is empty when the processing of an
\* Alloc event completes, whether or not malloc succeeded.
C3_QueueEmptyAfterAlloc ==
  [][(mode = "oracle" /\ pc = "alloc" /\ pc' = "loop") => pending_frees_' = << >>]_vars

\* C3 witness: an Alloc event has completed whose malloc failed, after a drain
\* that discarded a free of an unknown id.
C3_Witness ==
  /\ mode = "oracle" /\ pc = "loop"
  /\ pending_frees_ = << >>
  /\ stats_.total_allocations = 0
  /\ \E i \in 1..Len(deq_log) : deq_log[i].handle = NULL

\* C4: in Oracle mode a Free event only appends to the pending-free queue: the
\* live table, the statistics and the released handles stay as they are.
C4_FreeOnlyEnqueues ==
  [][(mode = "oracle" /\ current_event_index_' # current_event_index_ /\ pc = "loop")
       => /\ \E id \in ObjIds, ts \in NextTimestamps :
               pending_frees_' =
                 Append(pending_frees_,
                        [timestamp |-> ts, object_id |-> id,
                         index |-> current_event_index_])
          /\ UNCHANGED <<live_objects_, stats_, released, nextHandle>>
    ]_vars

\* C4 witness: a free is queued for an object that is still in the live table
\* and nothing has been freed.
C4_Witness ==
  /\ mode = "oracle"
  /\ pending_frees_ # << >>
  /\ Head(pending_frees_).object_id \in DOMAIN live_objects_
  /\ stats_.total_frees = 0
  /\ DOMAIN released = {}

\* The event indices of a sequence of queued or popped frees.
Indices(q) == [i \in 1..Len(q) |-> q[i].index]

\* C5: in Oracle mode queued frees are popped in the order they were queued:
\* the frees popped so far followed by the frees still queued are the frees in
\* the order process_free queued them.
C5_FifoOrder ==
  mode = "oracle" => Indices(deq_log) \o Indices(pending_frees_) = enq_log

\* C5 witness: two frees have been popped and a later one is still queued.
C5_Witness ==
  /\ mode = "oracle"
  /\ Len(deq_log) >= 2
  /\ pending_frees_ # << >>

\* C6: when replay() has returned the queue is empty and every queued free has
\* been popped exactly once, either releasing its object or being discarded.
C6_NoFreeDropped ==
  (mode = "oracle" /\ pc \in {"done", "torn"}) =>
    /\ pending_frees_ = << >>
    /\ Indices(deq_log) = enq_log
    /\ \A i \in 1..Len(deq_log) :
         deq_log[i].handle # NULL => deq_log[i].handle \in DOMAIN released
    /\ stats_.total_frees = Cardinality({i \in 1..Len(deq_log) : deq_log[i].handle # NULL})

\* C6 witness: replay() has returned from a trace whose last two events were
\* Free events, both popped by the end-of-trace drain.
C6_Witness ==
  /\ mode = "oracle" /\ pc = "done"
  /\ Len(enq_log) >= 2
  /\ enq_log[Len(enq_log)] = current_event_index_ - 1
  /\ enq_log[Len(enq_log) - 1] = current_event_index_ - 2
  /\ stats_.total_frees >= 1

\* C7: when the drain meets a queued free whose id is absent from the live
\* table, the free is popped and nothing else changes, and the drain goes on.
C7_UnknownFreeDiscarded ==
  [][(/\ mode = "oracle"
      /\ deq_log' # deq_log
      /\ Head(pending_frees_).object_id \notin DOMAIN live_objects_)
       => /\ pending_frees_' = Tail(pending_frees_)
          /\ UNCHANGED <<live_objects_, stats_, released, nextHandle>>
          /\ pc' = pc
    ]_vars

\* C7 witness: within one drain a free was discarded and a later one released
\* its object.
C7_Witness ==
  /\ mode = "oracle" /\ pc = "alloc"
  /\ \E i, j \in 1..Len(deq_log) :
       /\ i < j
       /\ deq_log[i].handle = NULL
       /\ deq_log[j].handle # NULL

\* C8: in GC mode every object released by an in-trace sweep had a death record
\* for its id processed after its own allocation.
C8_ReleasedOnlyAfterDeath ==
  (mode = "gc" /\ pc = "run") => DOMAIN released \subseteq marked

\* C9: in GC mode deallocate only inserts the id into the dead set; the live
\* table, the statistics and the released handles stay as they are.
C9_DeallocateOnlyMarks ==
  [][(mode = "gc" /\ DOMAIN liveObjects' # DOMAIN liveObjects
        /\ DOMAIN liveObjects' \subseteq DOMAIN liveObjects)
       => /\ \E objectId \in DOMAIN liveObjects \ DOMAIN liveObjects' :
               deadObjects' = deadObjects \cup {objectId}
          /\ UNCHANGED <<allocations, sizes, stats, released, nextHandle,
                         allocationsSinceLastGC>>
    ]_vars

\* C9 witness: an object marked dead is still in the live table, unreleased.
C9_Witness ==
  /\ mode = "gc" /\ pc = "run"
  /\ \E objectId \in deadObjects :
       /\ objectId \in DOMAIN allocations
       /\ allocations[objectId] \notin DOMAIN released
       /\ objectId \notin DOMAIN liveObjects

\* The collection trigger as the design states it, on the counters as they are
\* after a successful allocation of size bytes; retried: the allocation was the
\* retry that follows the collection of the failure path.
TriggerExpected(retried, size) ==
  LET before == IF retried THEN performGC(Manager) ELSE Manager IN
  \/ before.stats.currentMemoryUsage + size > gcThreshold
  \/ before.allocationsSinceLastGC + 1 > allocationThreshold

SweptIds == deadObjects \cap DOMAIN allocations

\* The released handles after each handle of hs was released once more.
ReleasedOnceMore(hs) ==
  [h \in DOMAIN released \cup hs |->
     (IF h \in DOMAIN released THEN released[h] ELSE 0) + (IF h \in hs THEN 1 ELSE 0)]

\* The manager's variables before and after one performGC and nothing else.
SweepPostcondition ==
  /\ allocations' = [k \in DOMAIN allocations \ deadObjects |-> allocations[k]]
  /\ sizes' = [k \in DOMAIN sizes \ deadObjects |-> sizes[k]]
  /\ released' = ReleasedOnceMore({allocations[k] : k \in SweptIds})
  /\ ManagerStep("totalDeallocations") = Cardinality(SweptIds)
  /\ ManagerStep("totalBytesFreed") = SumOver(sizes, SweptIds)
  /\ deadObjects' = {}
  /\ allocationsSinceLastGC' = 0
  /\ ManagerStep("gcCollections") = 1

\* C11: a GC sweep (performGC, run alone by an allocation whose backend request
\* and retry both fail) removes exactly the ids of the dead set from the live
\* table, releases each removed handle once and counts it once with its
\* recorded size, empties the dead set, resets allocationsSinceLastGC and adds
\* one to gcCollections; dead ids absent from the table release and count
\* nothing.
C11_SweepPostcondition ==
  [][\A objectId \in ObjIds, size \in Sizes :
       (mode = "gc" /\ handleObjectAllocationOf(objectId, size, FALSE, FALSE))
         => SweepPostcondition
    ]_vars

\* C11 witness: a sweep run alone has removed and released a dead object; the
\* request that ran it left no entry in the manager's table.
C11_Witness ==
  /\ mode = "gc" /\ pc = "run"
  /\ stats.gcCollections = 1
  /\ stats.totalAllocations = 1
  /\ stats.totalDeallocations = 1
  /\ allocations = EmptyMap
  /\ deadObjects = {}
  /\ \E h \in DOMAIN released : released[h] = 1
  /\ \E k \in DOMAIN liveObjects : liveObjects[k].address = NULL

\* A step in which performGC runs alone in a state as a sweep leaves it: the
\* dead set cleared and allocationsSinceLastGC at 0.
ReSweep ==
  /\ mode = "gc"
  /\ deadObjects = {}
  /\ allocationsSinceLastGC = 0
  /\ \E objectId \in ObjIds, size \in Sizes :
       handleObjectAllocationOf(objectId, size, FALSE, FALSE)

\* C12 (as stated): re-sweeping an already-cleared dead set releases no handle
\* and leaves the live table, the dead set and the statistics as they were.
C12_ReSweepChangesNothing ==
  [][ReSweep => UNCHANGED <<allocations, sizes, released, deadObjects, stats>>]_vars

\* C12 (amended): re-sweeping an already-cleared dead set releases no handle and
\* leaves the live table, the dead set and every statistic but the collection
\* count as they were; the collection count grows by one.
C12_ReSweepIdempotent ==
  [][ReSweep =>
       /\ UNCHANGED <<allocations, sizes, released, deadObjects, allocationsSinceLastGC>>
       /\ stats' = [stats EXCEPT !.gcCollections = @ + 1]
    ]_vars

\* C12 witness: two sweeps have run one after the other, the second on the
\* cleared dead set, with an object in the live table that neither released.
C12_Witness ==
  /\ mode = "gc" /\ pc = "run"
  /\ stats.gcCollections = 2
  /\ stats.totalAllocations = 1
  /\ lineNumber = 3
  /\ DOMAIN allocations # {}
  /\ DOMAIN released = {}
  /\ deadObjects = {}

\* C13: in GC mode, when the backend returns null for an allocation, one
\* collection runs before the one retry.  If the retry succeeds the request is
\* served as a successful allocation on the swept state: one new handle, the
\* entry of the id and the allocation counters updated, and the trigger checked
\* as usual.  If the retry fails too, null is returned, no handle is handed out,
\* no entry for the id is added to the manager's table and totalAllocations,
\* totalBytesAllocated and currentMemoryUsage are not increased.
C13_RetryAfterCollection ==
  [][\A objectId \in ObjIds, size \in Sizes, ok2 \in BOOLEAN :
       (mode = "gc" /\ handleObjectAllocationOf(objectId, size, FALSE, ok2)) =>
         LET swept == stats.currentMemoryUsage - SumOver(sizes, SweptIds)
             trigger == IF swept + size > gcThreshold \/ 1 > allocationThreshold
                        THEN 1 ELSE 0
         IN IF ok2
            THEN /\ nextHandle' = nextHandle + 1
                 /\ liveObjects'[objectId].address = nextHandle'
                 /\ allocations' =
                      Put([k \in DOMAIN allocations \ deadObjects |-> allocations[k]],
                          objectId, nextHandle')
                 /\ sizes' =
                      Put([k \in DOMAIN sizes \ deadObjects |-> sizes[k]], objectId, size)
                 /\ ManagerStep("totalAllocations") = 1
                 /\ ManagerStep("totalBytesAllocated") = size
                 /\ stats.currentMemoryUsage' = swept + size
                 /\ ManagerStep("gcCollections") = 1 + trigger
            ELSE /\ nextHandle' = nextHandle
                 /\ liveObjects'[objectId].address = NULL
                 /\ DOMAIN allocations' \subseteq DOMAIN allocations
                 /\ ManagerStep("totalAllocations") = 0
                 /\ ManagerStep("totalBytesAllocated") = 0
                 /\ stats.currentMemoryUsage' <= stats.currentMemoryUsage
                 /\ ManagerStep("gcCollections") = 1
    ]_vars

\* C13 witness: of two requests that the backend refused at the first attempt,
\* one was refused again at the retry and the other was served by it; each ran
\* one collection.
C13_Witness ==
  /\ mode = "gc" /\ pc = "run"
  /\ gcThreshold = DefaultGcThreshold
  /\ lineNumber = 2
  /\ stats.gcCollections = 2
  /\ stats.totalAllocations = 1
  /\ \E k \in DOMAIN liveObjects : liveObjects[k].address = NULL
  /\ \E k \in DOMAIN liveObjects : liveObjects[k].address # NULL

\* C14: in GC mode, after finalGC has returned, whatever the records before it,
\* the live table is empty, the dead set is empty and current-live-bytes is 0.
C14_FinalGCReclaimsAll ==
  (mode = "gc" /\ pc = "done") =>
    /\ allocations = EmptyMap
    /\ sizes = EmptyMap
    /\ deadObjects = {}
    /\ stats.currentMemoryUsage = 0

\* C15: the final forced collection is kept apart from the in-trace collections
\* in the statistics: the step of main that runs finalGC does not add to the
\* gcCollections counter that counts the in-trace collections.
C15_FinalSweepNotMerged ==
  [][(mode = "gc" /\ pc = "run" /\ pc' = "done")
       => stats.gcCollections' = stats.gcCollections]_vars

\* C16: in explicit mode, when the backend returns null for an allocation, no
\* entry for the object id is created in the manager's table or in the replay
\* driver's table, no handle is handed out, and total allocations, bytes
\* allocated and current-live-bytes stay as they are.  (struct Statistics has no
\* counter of failed allocations for the claim's first clause to read.)
C16_ExplicitFailureNoEntry ==
  [][\A objectId \in ObjIds, size \in Sizes :
       (mode = "explicit" /\ handleObjectAllocationOf(objectId, size, FALSE, TRUE)) =>
         /\ nextHandle' = nextHandle
         /\ DOMAIN allocations' \subseteq DOMAIN allocations
         /\ DOMAIN liveObjects' \subseteq DOMAIN liveObjects
         /\ ManagerStep("totalAllocations") = 0
         /\ ManagerStep("totalBytesAllocated") = 0
         /\ ManagerStep("currentMemoryUsage") = 0
    ]_vars

\* The statistics counters of the managers that the claim C17 names as unchanged.
NamedManagerCounters ==
  {"totalAllocations", "totalDeallocations", "totalBytesAllocated",
   "totalBytesFreed", "currentMemoryUsage", "peakMemoryUsage"}

\* C17: a free or death record for an id absent from the live table changes
\* nothing but a failed-free counter, which grows by exactly 1: in the C replayer
\* failed_frees, under TraceReplayer some counter of the manager's statistics
\* other than the allocation, deallocation and byte counters; the live tables,
\* the released handles and those counters stay as they are.
C17_AbsentFreeCounted ==
  [][/\ \A object_id \in CObjIds :
          (/\ mode = "c"
           /\ find_allocation(g_stats, object_id) = NULL
           /\ handle_free(object_id))
            => /\ g_stats' = [g_stats EXCEPT !.failed_frees = @ + 1]
               /\ UNCHANGED <<released, nextHandle>>
     /\ \A objectId \in ObjIds :
          (/\ mode \in {"explicit", "gc"}
           /\ objectId \notin DOMAIN liveObjects
           /\ handleObjectDeathOf(objectId))
            => /\ \E f \in DOMAIN stats \ NamedManagerCounters :
                    stats' = [stats EXCEPT ![f] = @ + 1]
               /\ UNCHANGED <<allocations, sizes, liveObjects, released, nextHandle>>
    ]_vars

\* C17, the part about the C replayer alone.
C17_AbsentFreeCountedC ==
  [][\A object_id \in CObjIds :
       (/\ mode = "c"
        /\ find_allocation(g_stats, object_id) = NULL
        /\ handle_free(object_id))
         => /\ g_stats' = [g_stats EXCEPT !.failed_frees = @ + 1]
            /\ UNCHANGED <<released, nextHandle>>
    ]_vars

\* The larger of two numbers.
Max(a, b) == IF a >= b THEN a ELSE b

\* The value current-live-bytes took right after the allocation of this step
\* was added: the value of the next state, plus what a collection triggered by
\* that allocation swept afterwards (under the GC manager all bytes a step
\* frees after its allocation; the collection of the retry path runs before the
\* allocation and leaves the dead set empty).
ManagerAfterAdd(retried) ==
  IF retried
  THEN stats.currentMemoryUsage - SumOver(sizes, SweptIds)
         + ManagerStep("totalBytesAllocated")
  ELSE stats.currentMemoryUsage + ManagerStep("totalBytesAllocated")

ScenarioAllocC ==
  \E object_id \in CObjIds, size \in Sizes :
    /\ g_stats.total_frees = 0
    /\ find_allocation(g_stats, object_id) = NULL
    /\ handle_alloc(object_id, size, TRUE, TRUE)

\* A "free" row of an id that is allocated and not yet freed.
ScenarioFreeC ==
  \E object_id \in CObjIds :
    /\ find_allocation(g_stats, object_id) # NULL
    /\ handle_free(object_id)

\* An Alloc event of a fresh id while no Free event has been read.
ScenarioAllocEnter ==
  /\ enq_log = << >>
  /\ process_allocation_enter
  /\ cur_event'.object_id \notin DOMAIN live_objects_

\* The allocation of that event, malloc succeeding.
ScenarioMalloc ==
  /\ process_allocation_malloc
  /\ nextHandle' = nextHandle + 1

\* A Free event of an id that is allocated and has no Free event yet.
ScenarioFree ==
  /\ process_free
  /\ LET e == pending_frees_'[Len(pending_frees_')] IN
       /\ e.object_id \in DOMAIN live_objects_
       /\ \A i \in 1..Len(pending_frees_) : pending_frees_[i].object_id # e.object_id

NextScenario ==
  \/ ScenarioAllocC
  \/ ScenarioFreeC
  \/ main_cleanup
  \/ ScenarioAllocEnter
  \/ ScenarioMalloc
  \/ ScenarioFree
  \/ replay_end
  \/ execute_pending_frees_end
  \/ cleanup

SpecScenario == (InitOracle \/ InitC) /\ [][NextScenario]_vars

\* Sum of the recorded sizes of the nodes of the C replayer's table.
CTableBytes ==
  SumOver([b \in Buckets |->
             SumOver([i \in 1..Len(g_stats.table[b]) |-> g_stats.table[b][i].size],
                     1..Len(g_stats.table[b]))],
          Buckets)

\* C19: for a trace that allocates n distinct ids and then frees each of them
\* once, all backend requests succeeding: while only allocations have been
\* processed the peak is the sum of their sizes; a free never changes the peak;
\* and at the end of the replay (in Oracle mode after the end-of-trace drain)
\* peak-live-bytes is the sum of the n sizes, current-live-bytes is 0 and total
\* allocations and total frees are n.  n is the number of handles the backend
\* handed out.
C19_AllocateThenFreeAll ==
  /\ [](/\ (mode = "c" /\ g_stats.total_frees = 0)
             => g_stats.peak_bytes = CTableBytes
        /\ (mode = "oracle" /\ enq_log = << >> /\ pc \in {"loop", "alloc"})
             => stats_.peak_memory = OracleTableBytes
        /\ (mode = "c" /\ nextHandle >= 1 /\ line_count = 2 * nextHandle)
             => /\ g_stats.peak_bytes = g_stats.total_bytes_allocated
                /\ g_stats.current_bytes = 0
                /\ g_stats.total_allocations = nextHandle
                /\ g_stats.total_frees = nextHandle
        /\ (mode = "oracle" /\ nextHandle >= 1 /\ Len(enq_log) = nextHandle
              /\ pc \in {"done", "torn"})
             => /\ stats_.peak_memory = stats_.bytes_allocated
                /\ stats_.current_memory = 0
                /\ stats_.total_allocations = nextHandle
                /\ stats_.total_frees = nextHandle)
  /\ [][/\ CStep("total_frees") # 0 => g_stats.peak_bytes' = g_stats.peak_bytes
        /\ OracleStep("total_frees") # 0 => stats_.peak_memory' = stats_.peak_memory
       ]_vars

\* C19 witness: an Oracle replay of two allocations of 1 and MaxSize bytes and
\* the two frees has returned, the frees executed by the end-of-trace drain.
C19_Witness ==
  /\ mode = "oracle" /\ pc = "done"
  /\ current_event_index_ = 4
  /\ Len(deq_log) = 2
  /\ stats_.total_allocations = 2
  /\ stats_.total_frees = 2
  /\ stats_.peak_memory = 1 + MaxSize
  /\ stats_.current_memory = 0

\* C19 witness for the C replayer: two allocations of ids of one bucket, then
\* the two frees.
C19_WitnessC ==
  /\ mode = "c" /\ pc = "run"
  /\ line_count = 4
  /\ g_stats.total_allocations = 2
  /\ g_stats.total_frees = 2
  /\ g_stats.peak_bytes = 1 + MaxSize
  /\ g_stats.current_bytes = 0

\* C20: the live object table holds at most one entry per object id at any
\* time, also after the same id is allocated twice with no free between.  The
\* map-based tables (live_objects_, allocations, sizes, liveObjects) are keyed
\* by the id and hold one entry per key by construction; in the C replayer no
\* chain of the hash table holds two nodes of one id.
C20_OneEntryPerId ==
  \A b \in Buckets :
    \A i, j \in 1..Len(g_stats.table[b]) :
      g_stats.table[b][i].object_id = g_stats.table[b][j].object_id => i = j

\* --------------------------------------------------- traces about one id
\* Sessions of the explicit manager and of the C replayer whose records all
\* name object id 1.
OneIdAllocation ==
  \E size \in Sizes, ok \in BOOLEAN : handleObjectAllocationOf(1, size, ok, TRUE)

OneIdDeath == handleObjectDeathOf(1)

OneIdAllocC ==
  \E size \in Sizes, ok \in BOOLEAN :
    \E okNode \in (IF ok THEN BOOLEAN ELSE {TRUE}) : handle_alloc(1, size, ok, okNode)

OneIdFreeC == handle_free(1)

NextOneId ==
  \/ OneIdAllocation
  \/ OneIdDeath
  \/ main_finalGC
  \/ delete_memSim
  \/ OneIdAllocC
  \/ OneIdFreeC
  \/ main_cleanup

SpecOneId == (InitExplicit \/ InitC) /\ [][NextOneId]_vars

\* C21: with immediate frees an object id that has been freed is never live
\* again: in a session whose records all name id 1, once a free of it has been
\* executed (counted in the deallocations) the id has no entry in the table.
C21_FreedIsTerminal ==
  /\ (mode = "explicit" /\ stats.totalDeallocations >= 1) => 1 \notin DOMAIN allocations
  /\ (mode = "c" /\ g_stats.total_frees >= 1) => find_allocation(g_stats, 1) = NULL

\* C22: session teardown leaks nothing: once the replayer or manager has been
\* torn down, every handle the backend returned during the session has been
\* released.
C22_TeardownLeaksNothing ==
  pc = "torn" => \A h \in 1..nextHandle : h \in DOMAIN released

\* C23: after load_oracle the event list is in ascending timestamp order and events
\* with equal timestamps keep the order of their input lines.
C23_SortedStable ==
  pc = "loaded" =>
    \A i, j \in DOMAIN events_ :
      i < j => /\ events_[i].timestamp <= events_[j].timestamp
               /\ events_[i].timestamp = events_[j].timestamp
                    => events_[i].line < events_[j].line

\* The data lines (every line after the header) that parse_event accepts.
WellFormed(f) == {k \in 2..Len(f) : f[k].kind = "event"}

\* C24: a row that fails to parse, whether short or non-numeric, is dropped; the
\* process does not abort and every well-formed row is ingested.
C24_MalformedRowDropped ==
  /\ pc # "aborted"
  /\ pc \in {"loaded", "failed"} => {e.line : e \in Range(events_)} = WellFormed(file)

\* Position of a site in the order the trace first allocated from it.
FirstSeenAt(site) == CHOOSE i \in DOMAIN first_seen : first_seen[i] = site

\* listed before: more allocations, or as many and seen first.
RanksBefore(a, b) ==
  \/ allocations_per_site[a] > allocations_per_site[b]
  \/ /\ allocations_per_site[a] = allocations_per_site[b]
     /\ FirstSeenAt(a) < FirstSeenAt(b)

\* C25: the hot-site list shows the top sites by allocation count, descending, ties
\* in first-seen order.
C25_HotSiteRanking ==
  pc = "printed" =>
    /\ Len(sites) = Min(Cardinality(DOMAIN allocations_per_site), HotSiteLimit)
    /\ \A i, j \in DOMAIN sites : i < j => RanksBefore(sites[i].site, sites[j].site)
    /\ \A i \in DOMAIN sites :
         \A b \in DOMAIN allocations_per_site \ {sites[k].site : k \in DOMAIN sites} :
           RanksBefore(sites[i].site, b)

\* A field-update, method-entry or method-exit record is processed.
EventRecord == handleFieldUpdate \/ handleMethodEntry \/ handleMethodExit

\* C26: field updates and method records leave the live table, the dead set, the
\* backend and every counter but fieldUpdates and methodCalls as they were.
C26_EventsHaveNoTableEffect ==
  [][EventRecord =>
       /\ UNCHANGED <<allocations, sizes, deadObjects, liveObjects, nextHandle, released>>
       /\ stats' = [stats EXCEPT !.fieldUpdates = stats'.fieldUpdates,
                                 !.methodCalls = stats'.methodCalls]]_vars

C26_Witness ==
  /\ mode \in {"explicit", "gc"}
  /\ stats.fieldUpdates >= 1
  /\ stats.methodCalls >= 1
  /\ allocations # EmptyMap

\* C27: the store of updateField stays inside the target's region: every offset it
\* writes is below the target's recorded size.
C27_StoreInsideRegion ==
  [][\A tgtObjId, srcObjId \in ObjIds :
       handleFieldUpdateOf(tgtObjId, srcObjId) =>
         \A o \in updateField_offsets(Manager, tgtObjId, srcObjId) : o < sizes[tgtObjId]]_vars

\* The inputs the claim calls an error: no trace argument, a trace that cannot be
\* read, an unrecognized mode.
InputError == argc < 3 \/ traceFile = "missing" \/ mode \notin {"explicit", "gc"}

\* C28: main returns 1 on an input error and 0 otherwise, and with a trace that
\* cannot be opened no line is dispatched and no collection runs on the manager.
C28_ExitCodes ==
  /\ pc = "exited" => exit_code = IF InputError THEN 1 ELSE 0
  /\ traceFile = "missing" => lineNumber = 0 /\ stats.gcCollections = 0

\* The backends compiled into the build.
Registered(b) ==
  {"standard"} \cup (IF b.USE_MIMALLOC THEN {"mimalloc"} ELSE {})
               \cup (IF b.USE_JEMALLOC THEN {"jemalloc"} ELSE {})

\* C29: createAllocator returns a backend for every name, and the standard backend
\* for every name that is not a backend of the build (null included).
C29_FallbackToStandard ==
  pc = "created" =>
    /\ allocator \in Registered(build)
    /\ allocatorName \notin Registered(build) => allocator = "standard"
    /\ allocatorName \in Registered(build) => allocator = allocatorName

C29_Witness ==
  /\ pc = "created"
  /\ allocatorName = "mimalloc"
  /\ ~build.USE_MIMALLOC
  /\ build.USE_JEMALLOC
  /\ allocator = "standard"

\* The list load_oracle returns is in ascending timestamp order, whatever the order
\* of the rows in the file.
LoadedListSorted ==
  pc = "loaded" =>
    \A i, j \in DOMAIN events_ : i < j => events_[i].timestamp <= events_[j].timestamp

\* C30: every queued free that the drain will execute carries a timestamp that is
\* at least the alloc_time of the object it releases, so the lifetime
\* free_event.timestamp - alloc_time does not wrap.
C30_LifetimeNeverWraps ==
  mode = "oracle" =>
    \A i \in DOMAIN pending_frees_ :
      pending_frees_[i].object_id \in DOMAIN live_objects_ =>
        pending_frees_[i].timestamp >= live_objects_[pending_frees_[i].object_id].alloc_time

C30_Witness ==
  /\ mode = "oracle"
  /\ stats_.total_frees >= 1
  /\ stats_.max_lifetime >= 1
  /\ stats_.total_lifetime = stats_.max_lifetime

\* A step that is an iteration of the while loop of execute_pending_frees: the
\* control is in a drain and the queue is not empty.
DrainStep == pc \in {"alloc", "end_drain"} /\ pending_frees_ # << >>

\* A step that completes the handling of one event of events_: process_free
\* returns, or process_allocation returns after its malloc.
Dispatched ==
  \/ pc = "loop" /\ pc' = "loop"
  \/ pc = "alloc" /\ pc' = "loop"

\* C31: replay terminates; the event index moves only forward and by one per
\* dispatched event, every drain iteration removes exactly one queued free, and at
\* the end of replay the queue is empty.
C31_ReplayTerminates ==
  /\ <>(pc = "torn")
  /\ [][/\ current_event_index_' \in {current_event_index_, current_event_index_ + 1}
        /\ Dispatched <=> current_event_index_' = current_event_index_ + 1
        /\ DrainStep => pending_frees_' = Tail(pending_frees_)]_vars
  /\ [](pc \in {"done", "torn"} => pending_frees_ = << >>)

C31_Witness ==
  /\ pc = "torn"
  /\ current_event_index_ = MaxFairEvents
  /\ Len(deq_log) >= 2
  /\ stats_.total_frees >= 1

\* ---------------------------------------------------------------------------
\* The Oracle replayer and the C replayer on one event list
\* ---------------------------------------------------------------------------

\* Length of the event lists both replayers are run on.
MaxEquivEvents == 3

\* The events a list can hold at position i; timestamps are the positions, so the
\* list is sorted.
EquivEvents(i) ==
  [kind : {"alloc"}, object_id : ObjIds, size : Sizes, timestamp : {i}]
    \cup [kind : {"free"}, object_id : ObjIds, size : {0}, timestamp : {i}]

RECURSIVE LiveAfter(_, _)
\* The ids that are allocated and not freed after the first k events of t.
LiveAfter(t, k) ==
  IF k = 0 THEN {}
  ELSE IF t[k].kind = "alloc" THEN LiveAfter(t, k - 1) \cup {t[k].object_id}
  ELSE LiveAfter(t, k - 1) \ {t[k].object_id}

\* Sorted event lists in which no id is allocated while it is live.
EquivTraces ==
  UNION {{t \in [1..n -> UNION {EquivEvents(i) : i \in 1..n}] :
            \A i \in 1..n :
              /\ t[i].timestamp = i
              /\ t[i].kind = "alloc" => t[i].object_id \notin LiveAfter(t, i - 1)}
         : n \in 1..MaxEquivEvents}

\* The event each replayer reads next.
OracleEvent == events_[current_event_index_ + 1]
CEvent == events_[line_count + 1]

\* Oracle replayer: the next event of the list is a Free.
EquivOracleFree ==
  /\ line_count = current_event_index_
  /\ current_event_index_ < Len(events_)
  /\ OracleEvent.kind = "free"
  /\ process_free
  /\ LET q == pending_frees_'[Len(pending_frees_')] IN
       q.object_id = OracleEvent.object_id /\ q.timestamp = OracleEvent.timestamp

\* Oracle replayer: the next event of the list is an Alloc.
EquivOracleAllocEnter ==
  /\ line_count = current_event_index_
  /\ current_event_index_ < Len(events_)
  /\ OracleEvent.kind = "alloc"
  /\ process_allocation_enter
  /\ cur_event' = [timestamp |-> OracleEvent.timestamp,
                   object_id |-> OracleEvent.object_id, size |-> OracleEvent.size]

\* Oracle replayer: the allocation, malloc succeeding.
EquivOracleMalloc ==
  /\ process_allocation_malloc
  /\ nextHandle' = nextHandle + 1

\* The Oracle replayer has handled an event the C replayer has not read yet: the C
\* replayer runs next.
EquivTurnToC ==
  /\ mode = "oracle" /\ pc = "loop"
  /\ line_count < current_event_index_
  /\ mode' = "c"
  /\ pc' = "run"
  /\ UNCHANGED <<nextHandle, released, oracleVars, enhVars, cVars, auxVars>>

\* C replayer: the row of the same event, malloc and the tracking node succeeding.
EquivCRow ==
  /\ line_count < current_event_index_
  /\ IF CEvent.kind = "alloc"
     THEN handle_alloc(CEvent.object_id, CEvent.size, TRUE, TRUE)
     ELSE handle_free(CEvent.object_id)

\* Both replayers have handled the same events: the Oracle replayer runs next.
EquivTurnToOracle ==
  /\ mode = "c" /\ pc = "run"
  /\ line_count = current_event_index_
  /\ mode' = "oracle"
  /\ pc' = "loop"
  /\ UNCHANGED <<nextHandle, released, oracleVars, enhVars, cVars, auxVars>>

\* Oracle replayer: the list is consumed (by both replayers).
EquivReplayEnd ==
  /\ line_count = Len(events_)
  /\ current_event_index_ = Len(events_)
  /\ replay_end

NextEquiv ==
  \/ EquivOracleFree
  \/ EquivOracleAllocEnter
  \/ execute_pending_frees_alloc
  \/ EquivOracleMalloc
  \/ EquivTurnToC
  \/ EquivCRow
  \/ EquivTurnToOracle
  \/ EquivReplayEnd
  \/ execute_pending_frees_end

InitEquiv ==
  /\ mode = "oracle"
  /\ pc = "loop"
  /\ BackendInit
  /\ OracleInitVars
  /\ EnhancedInitVars
  /\ CInitVars
  /\ SitesInit
  /\ MainStarted
  /\ gcThreshold = DefaultGcThreshold
  /\ allocationThreshold = MaxAllocThreshold
  /\ file = << >>
  /\ file_pos = 0
  /\ header_skipped = TRUE
  /\ events_ \in EquivTraces

SpecEquiv == InitEquiv /\ [][NextEquiv]_vars

\* The live table of each replayer as a set of (id, size) pairs.
OracleTable == {<<k, live_objects_[k].size>> : k \in DOMAIN live_objects_}
CTable ==
  {<<g_stats.table[b][i].object_id, g_stats.table[b][i].size>> :
     <<b, i>> \in {<<b, i>> \in Buckets \X (1..MaxRows) : i <= Len(g_stats.table[b])}}

\* Both replayers have handled the same events and the last one was an Alloc.
AfterAlloc ==
  /\ line_count = current_event_index_
  /\ line_count >= 1
  /\ pc \in {"loop", "run"}
  /\ events_[line_count].kind = "alloc"

\* C32: on a sorted list without re-allocation of a live id and without failed
\* allocations, the Oracle replayer and the immediate-free replayer agree on the
\* live table, the allocation count, the bytes allocated and the peak after each
\* Alloc event, and on the free count, the bytes freed and the current memory at
\* the end of the replay.
C32_DeferredEqualsImmediate ==
  /\ AfterAlloc =>
       /\ OracleTable = CTable
       /\ stats_.total_allocations = g_stats.total_allocations
       /\ stats_.bytes_allocated = g_stats.total_bytes_allocated
       /\ stats_.peak_memory = g_stats.peak_bytes
  /\ (pc = "done" /\ line_count = Len(events_)) =>
       /\ stats_.total_frees = g_stats.total_frees
       /\ stats_.bytes_freed = g_stats.total_bytes_freed
       /\ stats_.current_memory = g_stats.current_bytes

C32_Witness ==
  /\ pc = "done"
  /\ line_count = MaxEquivEvents
  /\ Len(deq_log) >= 1
  /\ stats_.total_frees >= 1
  /\ g_stats.failed_frees >= 1

\* C33: no handle a successful allocation returned is passed to the backend's free
\* more than once, through replay, finalization and teardown.
C33_NoDoubleRelease ==
  \A h \in DOMAIN released : h # NULL => released[h] <= 1

C33_Witness ==
  /\ mode = "oracle"
  /\ pc = "torn"
  /\ Cardinality(DOMAIN released) >= 2
  /\ \E i, j \in DOMAIN deq_log :
       /\ i < j
       /\ deq_log[i].handle # NULL
       /\ deq_log[j].handle = NULL

\* C34: in GC mode, when allocate returns a non-null handle the id is in the live
\* table and the handle has not been released, also when the allocation triggers a
\* collection while the id is in the dead set.
C34_ReturnedHandleIsLive ==
  [][\A objectId \in ObjIds, size \in Sizes, ok1, ok2 \in BOOLEAN :
       (mode = "gc" /\ handleObjectAllocationOf(objectId, size, ok1, ok2)) =>
         (liveObjects'[objectId].address # NULL =>
            /\ objectId \in DOMAIN allocations'
            /\ allocations'[objectId] = liveObjects'[objectId].address
            /\ liveObjects'[objectId].address \notin DOMAIN released')]_vars

\* The counters of the replayer of the session, under common names.
Counters ==
  CASE mode = "oracle" ->
         [allocs |-> stats_.total_allocations, frees |-> stats_.total_frees,
          bytes_allocated |-> stats_.bytes_allocated, bytes_freed |-> stats_.bytes_freed,
          current |-> stats_.current_memory]
    [] mode = "c" ->
         [allocs |-> g_stats.total_allocations, frees |-> g_stats.total_frees,
          bytes_allocated |-> g_stats.total_bytes_allocated,
          bytes_freed |-> g_stats.total_bytes_freed, current |-> g_stats.current_bytes]
    [] OTHER ->
         [allocs |-> stats.totalAllocations, frees |-> stats.totalDeallocations,
          bytes_allocated |-> stats.totalBytesAllocated,
          bytes_freed |-> stats.totalBytesFreed, current |-> stats.currentMemoryUsage]

\* C35: in every state of every replayer, bytes allocated minus bytes freed is the
\* current-live-bytes counter, bytes freed never exceed bytes allocated and frees
\* never exceed allocations.
C35_CounterConservation ==
  /\ Counters.bytes_allocated - Counters.bytes_freed = Counters.current
  /\ Counters.bytes_freed <= Counters.bytes_allocated
  /\ Counters.frees <= Counters.allocs

C35_Witness ==
  /\ mode = "gc"
  /\ stats.gcCollections >= 1
  /\ stats.totalDeallocations >= 1
  /\ stats.totalBytesFreed < stats.totalBytesAllocated

\* C replayer sessions in which malloc always returns the tracking node.
TrackedAlloc ==
  \E object_id \in CObjIds, size \in Sizes, ok \in BOOLEAN :
    handle_alloc(object_id, size, ok, TRUE)

NextCTracked == TrackedAlloc \/ parse_csv_line_free \/ main_cleanup

SpecCTracked == InitC /\ [][NextCTracked]_vars

\* The nodes of the C replayer's table.
TableNodes(st) ==
  {st.table[b][i] : <<b, i>> \in
     {<<b, i>> \in Buckets \X (1..MaxRows) : i <= Len(st.table[b])}}

\* The nodes tracked for an id.
NodesOf(st, object_id) == {n \in TableNodes(st) : n.object_id = object_id}

\* The node of an id that was allocated last: handles are issued in increasing
\* order.
Newest(st, object_id) ==
  CHOOSE n \in NodesOf(st, object_id) : \A m \in NodesOf(st, object_id) : m.ptr <= n.ptr

\* C36: with tracking nodes always available, live_objects is the number of table
\* entries and current_bytes the sum of their sizes, and a free of an id releases
\* the entry of that id allocated last and leaves every other entry in the table.
C36_TableMatchesCounters ==
  /\ [](mode = "c" =>
          /\ g_stats.live_objects = Cardinality(TableNodes(g_stats))
          /\ g_stats.current_bytes = CTableBytes)
  /\ [][\A object_id \in CObjIds :
          (handle_free(object_id) /\ NodesOf(g_stats, object_id) # {}) =>
            /\ released' = Release(released, Newest(g_stats, object_id).ptr)
            /\ TableNodes(g_stats') = TableNodes(g_stats) \ {Newest(g_stats, object_id)}]_vars

C36_Witness ==
  /\ mode = "c"
  /\ \E n \in NodesOf(g_stats, 1) : \E h \in DOMAIN released : n.ptr < h
  /\ Cardinality(NodesOf(g_stats, 1)) >= 1
  /\ Cardinality(TableNodes(g_stats)) >= 2
  /\ g_stats.total_frees = 1

\* Every id the manager tracks and the driver no longer does is in the dead set.
UntrackedIdsAreDead ==
  (mode = "gc" /\ pc = "run") => (DOMAIN allocations \ DOMAIN liveObjects) \subseteq deadObjects

\* The handles the next sweep will release.
AwaitingSweep == {allocations[k] : k \in deadObjects \cap DOMAIN allocations}

\* C37: in GC mode, after every event, every id in the manager's table that the
\* driver no longer tracks is in the dead set, and every object with a processed
\* death is released already or is released by the next sweep.
C37_DeadObjectsNotStranded ==
  (mode = "gc" /\ pc = "run") =>
    /\ (DOMAIN allocations \ DOMAIN liveObjects) \subseteq deadObjects
    /\ marked \subseteq DOMAIN released \cup AwaitingSweep

\* ---------------------------------------------------------------------------
\* The GC simulator beside the explicit manager on one trace
\* ---------------------------------------------------------------------------

\* The records a trace can hold: "N id size ..." and "D id ...".
TraceRecords ==
  [kind : {"N"}, objectId : ObjIds, size : Sizes]
    \cup [kind : {"D"}, objectId : ObjIds, size : {0}]

\* Traces of at most MaxLines records in which every id is allocated at most once.
CompareTraces ==
  UNION {{t \in [1..n -> TraceRecords] :
            \A i, j \in 1..n :
              (i < j /\ t[i].kind = "N" /\ t[j].kind = "N") => t[i].objectId # t[j].objectId}
         : n \in 1..MaxLines}

\* Every allocated object has a death record after its allocation.
EveryObjectDies(t) ==
  \A i \in DOMAIN t :
    t[i].kind = "N" =>
      \E j \in DOMAIN t : j > i /\ t[j].kind = "D" /\ t[j].objectId = t[i].objectId

\* A manager as its constructor leaves it, with a backend of its own.
NewManager ==
  [allocations |-> EmptyMap, sizes |-> EmptyMap, deadObjects |-> {},
   allocationsSinceLastGC |-> 0, stats |-> StatsInit,
   nextHandle |-> 0, released |-> EmptyMap]

RECURSIVE ExplicitRun(_, _)
\* The explicit manager and the driver's liveObjects (as the set of its keys) after
\* TraceReplayer has processed the first k records of t, every allocation
\* succeeding.
ExplicitRun(t, k) ==
  IF k = 0 THEN [g |-> NewManager, live |-> {}]
  ELSE LET before == ExplicitRun(t, k - 1)
           rec == t[k]
       IN IF rec.kind = "N"
          THEN [g |-> Explicit_allocate(before.g, rec.size, rec.objectId, TRUE).g,
                live |-> before.live \cup {rec.objectId}]
          ELSE IF rec.objectId \in before.live
               THEN [g |-> Explicit_deallocate(before.g, rec.objectId),
                     live |-> before.live \ {rec.objectId}]
               ELSE before

\* GC session: the next record of the trace is an allocation, which succeeds.
CompareAllocation ==
  /\ lineNumber < Len(file)
  /\ file[lineNumber + 1].kind = "N"
  /\ handleObjectAllocationOf(file[lineNumber + 1].objectId, file[lineNumber + 1].size,
                              TRUE, TRUE)

\* GC session: the next record of the trace is a death.
CompareDeath ==
  /\ lineNumber < Len(file)
  /\ file[lineNumber + 1].kind = "D"
  /\ handleObjectDeathOf(file[lineNumber + 1].objectId)

\* GC session: the trace is consumed; main calls finalGC.
CompareFinalGC ==
  /\ lineNumber = Len(file)
  /\ main_finalGC

NextCompare == CompareAllocation \/ CompareDeath \/ CompareFinalGC \/ delete_memSim

InitCompare ==
  /\ mode = "gc"
  /\ pc = "run"
  /\ BackendInit
  /\ OracleInitVars
  /\ EnhancedInitVars
  /\ CInitVars
  /\ SitesInit
  /\ MainStarted
  /\ gcThreshold \in GcThresholds
  /\ allocationThreshold \in AllocThresholds
  /\ file \in CompareTraces
  /\ file_pos = 0
  /\ header_skipped = TRUE
  /\ events_ = << >>

SpecCompare == InitCompare /\ [][NextCompare]_vars

\* The statistics of the explicit manager after the records the GC session has
\* processed.
ExplicitStats == ExplicitRun(file, lineNumber).g.stats

\* C38: on a trace with distinct ids and no allocation failure the GC manager's
\* current-live-bytes and peak are never below the explicit manager's after the
\* same records, and after finalGC on a trace in which every object dies both
\* have the same allocation count, deallocation count and bytes freed.
C38_DeferredNeverLower ==
  /\ (mode = "gc" /\ pc = "run") =>
       /\ stats.currentMemoryUsage >= ExplicitStats.currentMemoryUsage
       /\ stats.peakMemoryUsage >= ExplicitStats.peakMemoryUsage
  /\ (mode = "gc" /\ pc = "done" /\ EveryObjectDies(file)) =>
       /\ stats.totalAllocations = ExplicitStats.totalAllocations
       /\ stats.totalDeallocations = ExplicitStats.totalDeallocations
       /\ stats.totalBytesFreed = ExplicitStats.totalBytesFreed

C38_Witness ==
  /\ mode = "gc"
  /\ pc = "done"
  /\ Len(file) = MaxLines
  /\ EveryObjectDies(file)
  /\ stats.totalDeallocations >= 1
  /\ stats.peakMemoryUsage > ExplicitStats.currentMemoryUsage

====
